---- MODULE Spec2Model ----
(***************************************************************************)
(* LowImpactProfiler: the Checkpoint singleton, thread-record resolution   *)
(* (getThreadCpInfo), the checkpoint() hot path, the registry life cycle   *)
(* (initialize / instance / destroy / setActive), the report (dump,        *)
(* dumpThroughput, getTimeResolutionStr) and ScopedCheckpoint, from        *)
(* LowImpactProfiler.cc and LowImpactProfiler.h of the canonical variant.  *)
(*                                                                         *)
(* Every OS thread is a process with a program counter pc[t]; one action   *)
(* is one step of one thread between two accesses to shared state.  The    *)
(* clock is the variable now: every getCycles() call may find that it has  *)
(* advanced.                                                               *)
(***************************************************************************)
EXTENDS Integers, FiniteSets, Sequences, TLC

VARIABLES
    instance_,         \* Checkpoint::instance_: 0 is the null pointer, else the registry's identity
    useLocking_,       \* Checkpoint::useLocking_ (static)
    numThreads_,       \* Checkpoint::numThreads_
    isActive_,         \* Checkpoint::isActive_
    threadIdCounter_,  \* Checkpoint::threadIdCounter_
    threadCpInfoMap_,  \* Checkpoint::threadCpInfoMap_: thread identity -> ThreadCheckpointInfo
    threadIdVector_,   \* Checkpoint::threadIdVector_: index -> thread identity, the words written so far
    vecCapacity,       \* the storage threadIdVector_.reserve() allocated, in elements
    checkpointLock_,   \* Checkpoint::checkpointLock_: 0 free, else the thread holding it
    rwReaders,         \* threadCpInfoMapRwLock_: threads holding it shared
    rwWriter,          \* threadCpInfoMapRwLock_: 0, else the thread holding it exclusive
    now,               \* the value clock_gettime() would return
    pc,                \* per thread: position inside CHECKPOINT(id)
    cpArg,             \* per thread: the argument of the call in progress
    threadCp,          \* per thread: local threadCp (key of the record it points to)
    currentCp,         \* per thread: local currentCp (slot index)
    previousCp,        \* per thread: local previousCp (slot index)
    iterLoad,          \* per thread: iterations_ as loaded by ++(currentCp->iterations_)
    ret,               \* what the last explicit instance() call on the current registry returned
    created,           \* history: number of Checkpoint objects constructed so far
    initCalls,         \* history: number of explicit initialize() calls so far
    started,           \* history: per thread, CHECKPOINT calls started
    inactiveCalls,     \* history: per thread, CHECKPOINT calls that returned at the isActive_ test
    completed,         \* history: per thread and id, active calls completed on the current registry
    lastCallClock,     \* history: per thread, the clock value its last completed call read
    callers,           \* history: threads that made an active call on the current registry
    findLock,          \* history: per thread, the lock it held at its last map lookup
    cfg,               \* the workload: how many calls, objects and clock ticks a run may use
    dpc,               \* the dumping thread: position inside dump()
    dFlags,            \* dump: the arguments dumpAverages, dumpTput, dumpThreadIds
    dThread,           \* dump: local thread (loop index over the registration index)
    dKey,              \* dump: local threadCp (key of the record it points to)
    dMax,              \* dump: local maxCpIndex
    dCp,               \* dump: local checkPoint (loop index over the slots)
    dIter,             \* dump: currentCp->iterations_ as read for the line being built
    totalCpAvg,        \* dump: local totalCpAvg[MAX_CHECKPOINT]
    numCpHits,         \* dump: local numCpHits[MAX_CHECKPOINT]
    out,               \* the lines written to the ostream by the dump in progress or last finished
    dumps,             \* history: number of dump() calls started
    scoped,            \* per thread: its ScopedCheckpoint object, if it has one
    scopeLog,          \* history: per thread, the calls started since its object was constructed
    inactiveSince,     \* history: per thread, clock ticks spent inactive since its last active call
    wrLocks,           \* history: per thread, exclusive acquisitions of the map lock on this registry
    mainPc             \* the main thread of a program that tears the registry down: its position

dumpVars == <<dpc, dFlags, dThread, dKey, dMax, dCp, dIter, totalCpAvg, numCpHits,
              out, dumps>>

vars == <<instance_, useLocking_, numThreads_, isActive_, threadIdCounter_,
          threadCpInfoMap_, threadIdVector_, vecCapacity, checkpointLock_,
          rwReaders, rwWriter, now, pc, cpArg, threadCp, currentCp, previousCp,
          iterLoad, ret, created, initCalls, started, inactiveCalls, completed,
          lastCallClock, callers, findLock, cfg, dumpVars, scoped, scopeLog,
          inactiveSince, wrLocks, mainPc>>

registryVars == <<numThreads_, isActive_, threadIdCounter_, threadCpInfoMap_,
                  threadIdVector_, vecCapacity>>
lockVars     == <<checkpointLock_, rwReaders, rwWriter>>
localVars    == <<pc, cpArg, threadCp, currentCp, previousCp, iterLoad>>
historyVars  == <<started, inactiveCalls, completed, lastCallClock, callers,
                  findLock>>
auxVars      == <<scoped, scopeLog, inactiveSince, wrLocks, mainPc>>
dumpLocals   == <<dFlags, dThread, dKey, dMax, dCp, dIter, totalCpAvg, numCpHits>>

----------------------------------------------------------------------------
(* Bounds of the model *)

MAX_CHECKPOINT == 3   \* slots per thread record (the library is built with 10)
MaxCreated == 2       \* Checkpoint objects constructed in a life-cycle run
MaxInitCalls == 2     \* explicit initialize() calls in a life-cycle run
LifeCalls == 1        \* CHECKPOINT calls of the first thread in a life-cycle run
ConcCalls == 2        \* CHECKPOINT calls per OS thread in a concurrent run
TimeCalls == 3        \* CHECKPOINT calls of the one thread of a timing run
TimeClock == 3        \* the clock stops advancing here in a timing run
HistLen == 2          \* calls the first thread has made before a reporting run's dump
DumpCalls == 2        \* CHECKPOINT calls of the first thread in a live-dump run
WarmCalls == 2        \* CHECKPOINT calls of the one thread of a run with pauses
WarmClock == 2        \* the clock stops advancing here in a run with pauses
ScopeCalls == 3       \* calls of the first thread in a scoped run, those of its object included
DriverLoops == 2      \* numLoops of the example driver (its default is 10)
ModeCalls == 2        \* CHECKPOINT calls of the one thread of a scripted run
TputClock == 1            \* the clock stops advancing here in a throughput run
TeardownCalls == 2        \* checkpoint calls between initialize() and destroy() in a tear-down run

(* Program constants *)

DEFAULT_MAX_THREADS == 32

Threads == {1, 2}                        \* the OS threads that call into the library
CpIds == 0..(MAX_CHECKPOINT - 1)
NumThreadsArgs == {0, 1, 2}              \* numThreads arguments given to initialize()
Garbage == -1                            \* a word that is no thread identity
Pauses == {500, 1000000}                 \* microseconds between two calls of a thread

\* mutant: an identity that is not unique to the thread
pthread_selfShared(t) == 1

(* pthread_self(): distinct live threads have distinct identities, none 0; *)
(* which values they are is up to the run                                  *)
pthread_self(t) == cfg.tid[t]

Dumper == 3                              \* the thread that calls dump()
NoScope == [live |-> FALSE]              \* the thread has no ScopedCheckpoint object
ThreadIds == [t \in Threads |-> t]       \* identities in thread-creation order

----------------------------------------------------------------------------
(* The clock and the record types *)

\* the values one getCycles() call can return, given the last value read
getCycles == {c \in now..(now + 1) : c <= cfg.maxClock}

\* CheckpointInfo_s(): iterations_(0), totalCycles_(0), previousCycles_(getCycles())
CheckpointInfo(c) == [iterations_ |-> 0, totalCycles_ |-> 0, previousCycles_ |-> c]

\* ThreadCheckpointInfo_s(): the slots are constructed in index order, each
\* reading the clock, then creationCycles_ reads it again.  c0 is the value
\* the first reads return, c1 >= c0 the value from slot k on.
ThreadCheckpointInfo(c0, c1, k) ==
    [checkpoints_ |-> [i \in CpIds |-> CheckpointInfo(IF i < k THEN c0 ELSE c1)],
     creationCycles_ |-> c1,
     lastCheckpointHit_ |-> 0]

\* the records one construction can produce, and the clock afterwards
NewRecords ==
    {ThreadCheckpointInfo(now, c1, k) : c1 \in getCycles, k \in {0, MAX_CHECKPOINT}}

\* map[key] = rec
MapPut(map, key, rec) ==
    [k \in (DOMAIN map) \cup {key} |-> IF k = key THEN rec ELSE map[k]]

\* vector[idx] = word   (operator[]: no bounds check, size() is never changed);
\* a store at idx >= vecCapacity lands outside the vector's storage, and what a
\* later load finds there need not be the word stored
VecStore(vec, idx, word) ==
    [i \in (DOMAIN vec) \cup {idx} |-> IF i = idx THEN word ELSE vec[i]]

EmptyFn == [x \in {} |-> 0]

\* uint64_t arithmetic is modulo 2^64; the model's words are narrower, wide
\* enough for every sum of the model's clock values
Uint64Modulus == 1073741824
Wrap64(x) == x % Uint64Modulus
Uint32Modulus == 32768
Wrap32(x) == x % Uint32Modulus

\* what a load finds at an address outside the object it was computed from
OutsideWords == {0, Garbage}

\* threadCp->checkpoints_[idx] as an rvalue.  At idx = MAX_CHECKPOINT the
\* address is the end of the array: iterations_ is read from creationCycles_,
\* totalCycles_ from lastCheckpointHit_ and previousCycles_ from past the record
SlotLoad(rec, idx, word) ==
    IF idx \in CpIds
      THEN rec.checkpoints_[idx]
      ELSE [iterations_ |-> rec.creationCycles_, totalCycles_ |-> rec.lastCheckpointHit_,
            previousCycles_ |-> word]

----------------------------------------------------------------------------
BaseInit ==
    /\ instance_ = 0
    /\ useLocking_ = TRUE
    /\ numThreads_ = 0
    /\ isActive_ = FALSE
    /\ threadIdCounter_ = 0
    /\ threadCpInfoMap_ = EmptyFn
    /\ threadIdVector_ = EmptyFn
    /\ vecCapacity = 0
    /\ checkpointLock_ = 0
    /\ rwReaders = {}
    /\ rwWriter = 0
    /\ now = 0
    /\ pc = [t \in Threads |-> "idle"]
    /\ cpArg = [t \in Threads |-> 0]
    /\ threadCp = [t \in Threads |-> 0]
    /\ currentCp = [t \in Threads |-> 0]
    /\ previousCp = [t \in Threads |-> 0]
    /\ iterLoad = [t \in Threads |-> 0]
    /\ ret = 0
    /\ created = 0
    /\ initCalls = 0
    /\ started = [t \in Threads |-> 0]
    /\ inactiveCalls = [t \in Threads |-> 0]
    /\ completed = [t \in Threads |-> [i \in CpIds |-> 0]]
    /\ lastCallClock = [t \in Threads |-> 0]
    /\ callers = {}
    /\ findLock = [t \in Threads |-> "none"]
    /\ dpc = "idle"
    /\ dFlags = [dumpAverages |-> FALSE, dumpTput |-> FALSE, dumpThreadIds |-> FALSE]
    /\ dThread = 0
    /\ dKey = 0
    /\ dMax = 0
    /\ dCp = 0
    /\ dIter = 0
    /\ totalCpAvg = [i \in CpIds |-> [iterations_ |-> 0, totalCycles_ |-> 0]]
    /\ numCpHits = [i \in CpIds |-> 0]
    /\ out = <<>>
    /\ dumps = 0
    /\ scoped = [t \in Threads |-> NoScope]
    /\ scopeLog = [t \in Threads |-> <<>>]
    /\ inactiveSince = [t \in Threads |-> 0]
    /\ wrLocks = [t \in Threads |-> 0]
    /\ mainPc = "start"

\* a life-cycle run: the registry is created, destroyed and created again
\* while the first thread makes few calls and the second makes one, on the
\* first and the last id; the clock stands still (SpecTime advances it)
Init ==
    /\ BaseInit
    /\ cfg = [calls |-> [t \in Threads |-> IF t = 1 THEN LifeCalls ELSE 1],
              ids |-> {0, MAX_CHECKPOINT - 1},
              maxClock |-> 0, maxInit |-> MaxInitCalls, maxCreated |-> MaxCreated,
              tid |-> ThreadIds]

\* a concurrent run: all threads record at once on one registry; the clock
\* stands still (SpecTime advances it)
InitConc ==
    /\ BaseInit
    /\ cfg = [calls |-> [t \in Threads |-> ConcCalls], ids |-> {0, MAX_CHECKPOINT - 1},
              maxClock |-> 0, maxInit |-> 1, maxCreated |-> 1, tid |-> ThreadIds]

\* a timing run: one thread records on one registry while the clock advances
InitTime ==
    /\ BaseInit
    /\ cfg = [calls |-> [t \in Threads |-> IF t = 1 THEN TimeCalls ELSE 0], ids |-> CpIds,
              maxClock |-> TimeClock, maxInit |-> 1, maxCreated |-> 1, tid |-> ThreadIds]

----------------------------------------------------------------------------
(* Life cycle: initialize, instance, destroy, setActive *)

\* Checkpoint::Checkpoint(numThreads): a new object with its own locks
Construct(numThreads) ==
    /\ created' = created + 1
    /\ instance_' = created + 1
    /\ numThreads_' = numThreads
    /\ isActive_' = TRUE
    /\ threadIdCounter_' = 0
    /\ threadCpInfoMap_' = EmptyFn
    /\ threadIdVector_' = EmptyFn
    /\ vecCapacity' = IF numThreads > 1 THEN numThreads ELSE 1
    /\ checkpointLock_' = 0
    /\ rwReaders' = {}
    /\ rwWriter' = 0

\* mutant: initialize() without its instance_ == 0 test
InitializeNoGuard(numThreads, useLocking) ==
    /\ \A t \in Threads : pc[t] = "idle"
    /\ dpc = "idle"
    /\ initCalls < cfg.maxInit
    /\ initCalls' = initCalls + 1
    /\ useLocking_' = useLocking
    /\ created < cfg.maxCreated
    /\ Construct(numThreads)
    /\ UNCHANGED <<now, localVars, ret, historyVars, cfg, auxVars, dumpVars>>

\* mutant: initialize() is called while checkpoint and dump calls are in progress
InitializeAnytime(numThreads, useLocking) ==
    /\ initCalls < cfg.maxInit
    /\ initCalls' = initCalls + 1
    /\ useLocking_' = useLocking
    /\ IF instance_ = 0
         THEN created < cfg.maxCreated /\ Construct(numThreads)
         ELSE UNCHANGED <<instance_, created, registryVars, lockVars>>
    /\ UNCHANGED <<now, localVars, ret, historyVars, cfg, auxVars, dumpVars>>

\* Checkpoint::initialize(numThreads, useLocking); by contract not while a
\* checkpoint or dump call is in progress
Initialize(numThreads, useLocking) ==
    /\ \A t \in Threads : pc[t] = "idle"
    /\ dpc = "idle"
    /\ initCalls < cfg.maxInit
    /\ initCalls' = initCalls + 1
    /\ useLocking_' = useLocking
    /\ IF instance_ = 0
         THEN created < cfg.maxCreated /\ Construct(numThreads)
         ELSE UNCHANGED <<instance_, created, registryVars, lockVars>>
    /\ UNCHANGED <<now, localVars, ret, historyVars, cfg, auxVars, dumpVars>>

\* mutant: instance() constructs the object itself and leaves useLocking_ alone
InstanceKeepsLocking(t) ==
    /\ pc[t] = "idle"
    /\ IF instance_ = 0
         THEN /\ created < cfg.maxCreated
              /\ Construct(DEFAULT_MAX_THREADS)
         ELSE UNCHANGED <<instance_, created, registryVars, lockVars>>
    /\ ret' = instance_'
    /\ UNCHANGED <<useLocking_, now, localVars, initCalls, historyVars, cfg, auxVars, dumpVars>>

\* Checkpoint::instance(), called on its own by thread t
Instance(t) ==
    /\ pc[t] = "idle"
    /\ IF instance_ = 0
         THEN /\ created < cfg.maxCreated
              /\ useLocking_' = TRUE
              /\ Construct(DEFAULT_MAX_THREADS)
         ELSE UNCHANGED <<instance_, created, useLocking_, registryVars, lockVars>>
    /\ ret' = instance_'
    /\ UNCHANGED <<now, localVars, initCalls, historyVars, cfg, auxVars, dumpVars>>

\* Checkpoint::destroy(); by contract only once no thread is inside the library
Destroy ==
    /\ \A t \in Threads : pc[t] = "idle"
    /\ dpc = "idle"
    /\ IF instance_ # 0
         THEN /\ instance_' = 0
              /\ numThreads_' = 0
              /\ isActive_' = FALSE
              /\ threadIdCounter_' = 0
              /\ threadCpInfoMap_' = EmptyFn
              /\ threadIdVector_' = EmptyFn
              /\ vecCapacity' = 0
              /\ checkpointLock_' = 0
              /\ rwReaders' = {}
              /\ rwWriter' = 0
              /\ completed' = [t \in Threads |-> [i \in CpIds |-> 0]]
              /\ lastCallClock' = [t \in Threads |-> 0]
              /\ callers' = {}
              /\ findLock' = [t \in Threads |-> "none"]
              /\ wrLocks' = [t \in Threads |-> 0]
              /\ ret' = 0
         ELSE UNCHANGED <<instance_, registryVars, lockVars, completed, lastCallClock,
                          callers, findLock, wrLocks, ret>>
    /\ UNCHANGED <<useLocking_, now, localVars, created, initCalls, started, inactiveCalls,
                   cfg, scoped, scopeLog, inactiveSince, mainPc, dumpVars>>

\* Checkpoint::setActive(active)
SetActive(active) ==
    /\ instance_ # 0
    /\ isActive_' = active
    /\ UNCHANGED <<instance_, useLocking_, numThreads_, threadIdCounter_, threadCpInfoMap_,
                   threadIdVector_, vecCapacity, lockVars, now, localVars, ret, created,
                   initCalls, historyVars, cfg, auxVars, dumpVars>>

----------------------------------------------------------------------------
(* CHECKPOINT(id): Checkpoint::instance()->checkpoint(id), step by step *)

\* mutant: checkpoint() without its isActive_ test
InactiveReturnNever == FALSE

\* if(__unlikely(!isActive_)) return;   evaluated on the object instance() returned
InactiveReturn == ~isActive_'

\* Checkpoint::instance()->checkpoint(id) is entered by thread t: instance(),
\* the isActive_ test and the numThreads_ test of getThreadCpInfo
InstanceCheckpoint(t, id) ==
    /\ pc[t] = "idle"
    /\ started[t] < cfg.calls[t]
    /\ id \in cfg.ids
    /\ started' = [started EXCEPT ![t] = @ + 1]
    /\ IF instance_ = 0
         THEN /\ created < cfg.maxCreated
              /\ useLocking_' = TRUE
              /\ Construct(DEFAULT_MAX_THREADS)
         ELSE UNCHANGED <<instance_, created, useLocking_, registryVars, lockVars>>
    /\ IF InactiveReturn
         THEN /\ inactiveCalls' = [inactiveCalls EXCEPT ![t] = @ + 1]
              /\ UNCHANGED <<localVars, callers>>
         ELSE /\ cpArg' = [cpArg EXCEPT ![t] = id]
              /\ callers' = callers \cup {t}
              /\ IF numThreads_' # 0
                   THEN /\ pc' = [pc EXCEPT ![t] = "rdlock"]
                        /\ UNCHANGED threadCp
                   ELSE IF DOMAIN threadCpInfoMap_' = {}
                   THEN /\ pc' = [pc EXCEPT ![t] = "st_insert"]
                        /\ UNCHANGED threadCp
                   ELSE /\ pc' = [pc EXCEPT ![t] = "resolved"]
                        /\ threadCp' = [threadCp EXCEPT ![t] = 0]
              /\ UNCHANGED <<inactiveCalls, currentCp, previousCp, iterLoad>>
    /\ UNCHANGED <<now, ret, initCalls, completed, lastCallClock, findLock, cfg,
                   inactiveSince, wrLocks, mainPc, dumpVars>>

\* a call of one ScopedCheckpoint object, or of the code in its scope
ScopeCall(id, by) == [id |-> id, by |-> by]

\* CHECKPOINT(id) in the program text of thread t
CpBegin(t, id) ==
    /\ InstanceCheckpoint(t, id)
    /\ scopeLog' = IF scoped[t].live
                     THEN [scopeLog EXCEPT ![t] = Append(@, ScopeCall(id, "body"))]
                     ELSE scopeLog
    /\ UNCHANGED scoped

\* mutant: the implicit thread's record starts as if its last slot had been hit
StInsertLastHit(t) ==
    /\ pc[t] = "st_insert"
    /\ \E rec \in NewRecords, word \in {0, Garbage} :
         /\ (word = Garbage) => (threadIdCounter_ >= vecCapacity)
         /\ threadCpInfoMap_' =
              MapPut(threadCpInfoMap_, 0, [rec EXCEPT !.lastCheckpointHit_ = MAX_CHECKPOINT - 1])
         /\ now' = rec.creationCycles_
         /\ threadIdVector_' = VecStore(threadIdVector_, threadIdCounter_, word)
    /\ threadIdCounter_' = threadIdCounter_ + 1
    /\ threadCp' = [threadCp EXCEPT ![t] = 0]
    /\ pc' = [pc EXCEPT ![t] = "resolved"]
    /\ UNCHANGED <<instance_, useLocking_, numThreads_, isActive_, vecCapacity, lockVars,
                   cpArg, currentCp, previousCp, iterLoad, ret, created, initCalls,
                   historyVars, cfg, auxVars, dumpVars>>

\* numThreads_ == 0: threadCpInfoMap_[0] = ThreadCheckpointInfo();
\*                   threadIdVector_[threadIdCounter_++] = 0;
StInsert(t) ==
    /\ pc[t] = "st_insert"
    /\ \E rec \in NewRecords, word \in {0, Garbage} :
         /\ (word = Garbage) => (threadIdCounter_ >= vecCapacity)
         /\ threadCpInfoMap_' = MapPut(threadCpInfoMap_, 0, rec)
         /\ now' = rec.creationCycles_
         /\ threadIdVector_' = VecStore(threadIdVector_, threadIdCounter_, word)
    /\ threadIdCounter_' = threadIdCounter_ + 1
    /\ threadCp' = [threadCp EXCEPT ![t] = 0]
    /\ pc' = [pc EXCEPT ![t] = "resolved"]
    /\ UNCHANGED <<instance_, useLocking_, numThreads_, isActive_, vecCapacity, lockVars,
                   cpArg, currentCp, previousCp, iterLoad, ret, created, initCalls,
                   historyVars, cfg, auxVars, dumpVars>>

\* mutant: a reader-preferring lock, readers pass a waiting writer
RdLockPassesWriter(t) ==
    /\ pc[t] = "rdlock"
    /\ rwWriter = 0
    /\ rwReaders' = rwReaders \cup {t}
    /\ pc' = [pc EXCEPT ![t] = "find"]
    /\ UNCHANGED <<instance_, useLocking_, registryVars, checkpointLock_, rwWriter, now,
                   cpArg, threadCp, currentCp, previousCp, iterLoad, ret, created,
                   initCalls, historyVars, cfg, auxVars, dumpVars>>

\* pthread_rwlock_rdlock(): blocks while a writer holds the lock or waits for it
RdLock(t) ==
    /\ pc[t] = "rdlock"
    /\ rwWriter = 0
    /\ \A u \in Threads : pc[u] # "wr_wait"
    /\ rwReaders' = rwReaders \cup {t}
    /\ pc' = [pc EXCEPT ![t] = "find"]
    /\ UNCHANGED <<instance_, useLocking_, registryVars, checkpointLock_, rwWriter, now,
                   cpArg, threadCp, currentCp, previousCp, iterLoad, ret, created,
                   initCalls, historyVars, cfg, auxVars, dumpVars>>

\* mutant: the lookup never finds the record, every call takes the slow path
FindMisses(t) ==
    /\ pc[t] = "find"
    /\ findLock' = [findLock EXCEPT ![t] = "rd"]
    /\ rwReaders' = rwReaders \ {t}
    /\ pc' = [pc EXCEPT ![t] = "wrlock"]
    /\ UNCHANGED <<instance_, useLocking_, registryVars, checkpointLock_, rwWriter, now,
                   cpArg, threadCp, currentCp, previousCp, iterLoad, ret, created, initCalls,
                   started, inactiveCalls, completed, lastCallClock, callers, cfg, auxVars,
                   dumpVars>>

\* threadCpInfoMap_.find(threadId) under the shared lock, then unlock
Find(t) ==
    /\ pc[t] = "find"
    /\ findLock' = [findLock EXCEPT ![t] = "rd"]
    /\ rwReaders' = rwReaders \ {t}
    /\ IF pthread_self(t) \in DOMAIN threadCpInfoMap_
         THEN /\ threadCp' = [threadCp EXCEPT ![t] = pthread_self(t)]
              /\ pc' = [pc EXCEPT ![t] = "resolved"]
         ELSE /\ pc' = [pc EXCEPT ![t] = "wrlock"]
              /\ UNCHANGED threadCp
    /\ UNCHANGED <<instance_, useLocking_, registryVars, checkpointLock_, rwWriter, now,
                   cpArg, currentCp, previousCp, iterLoad, ret, created, initCalls,
                   started, inactiveCalls, completed, lastCallClock, callers, cfg, auxVars, dumpVars>>

\* the call of pthread_rwlock_wrlock(): from here the thread is a waiting writer
WrRequest(t) ==
    /\ pc[t] = "wrlock"
    /\ pc' = [pc EXCEPT ![t] = "wr_wait"]
    /\ UNCHANGED <<instance_, useLocking_, registryVars, lockVars, now, cpArg, threadCp,
                   currentCp, previousCp, iterLoad, ret, created, initCalls, historyVars,
                   cfg, auxVars, dumpVars>>

\* pthread_rwlock_wrlock() returns
WrLock(t) ==
    /\ pc[t] = "wr_wait"
    /\ rwWriter = 0
    /\ rwReaders = {}
    /\ rwWriter' = t
    /\ wrLocks' = [wrLocks EXCEPT ![t] = @ + 1]
    /\ pc' = [pc EXCEPT ![t] = "reg_index"]
    /\ UNCHANGED <<instance_, useLocking_, registryVars, checkpointLock_, rwReaders, now,
                   cpArg, threadCp, currentCp, previousCp, iterLoad, ret, created,
                   initCalls, historyVars, cfg, scoped, scopeLog, inactiveSince, mainPc, dumpVars>>

\* mutant: the registration count is not advanced
RegIndexKeepsCounter(t) ==
    /\ pc[t] = "reg_index"
    /\ \E word \in {pthread_self(t), Garbage} :
         /\ (word = Garbage) => (threadIdCounter_ >= vecCapacity)
         /\ threadIdVector_' = VecStore(threadIdVector_, threadIdCounter_, word)
    /\ pc' = [pc EXCEPT ![t] = "reg_insert"]
    /\ UNCHANGED <<instance_, useLocking_, numThreads_, isActive_, threadCpInfoMap_,
                   threadIdCounter_, vecCapacity, lockVars, now, cpArg, threadCp, currentCp,
                   previousCp, iterLoad, ret, created, initCalls, historyVars, cfg, auxVars,
                   dumpVars>>

\* threadIdVector_[threadIdCounter_++] = threadId;
RegIndex(t) ==
    /\ pc[t] = "reg_index"
    /\ \E word \in {pthread_self(t), Garbage} :
         /\ (word = Garbage) => (threadIdCounter_ >= vecCapacity)
         /\ threadIdVector_' = VecStore(threadIdVector_, threadIdCounter_, word)
    /\ threadIdCounter_' = threadIdCounter_ + 1
    /\ pc' = [pc EXCEPT ![t] = "reg_insert"]
    /\ UNCHANGED <<instance_, useLocking_, numThreads_, isActive_, threadCpInfoMap_,
                   vecCapacity, lockVars, now, cpArg, threadCp, currentCp, previousCp,
                   iterLoad, ret, created, initCalls, historyVars, cfg, auxVars, dumpVars>>

\* threadCpInfoMap_[threadId] = ThreadCheckpointInfo();
\* threadCpInfo = &(threadCpInfoMap_[threadId]); pthread_rwlock_unlock()
RegInsert(t) ==
    /\ pc[t] = "reg_insert"
    /\ \E rec \in NewRecords :
         /\ threadCpInfoMap_' = MapPut(threadCpInfoMap_, pthread_self(t), rec)
         /\ now' = rec.creationCycles_
    /\ threadCp' = [threadCp EXCEPT ![t] = pthread_self(t)]
    /\ rwWriter' = 0
    /\ pc' = [pc EXCEPT ![t] = "resolved"]
    /\ UNCHANGED <<instance_, useLocking_, numThreads_, isActive_, threadIdCounter_,
                   threadIdVector_, vecCapacity, checkpointLock_, rwReaders, cpArg,
                   currentCp, previousCp, iterLoad, ret, created, initCalls, historyVars,
                   cfg, auxVars, dumpVars>>

----------------------------------------------------------------------------
(* Checkpoint::checkpoint(), after the record is resolved *)

\* mutant: previousCp is always the first slot
CpPointersFromFirst(t) ==
    /\ pc[t] = "resolved"
    /\ currentCp' = [currentCp EXCEPT ![t] = cpArg[t]]
    /\ previousCp' = [previousCp EXCEPT ![t] = 0]
    /\ threadCpInfoMap_' =
         [threadCpInfoMap_ EXCEPT ![threadCp[t]].lastCheckpointHit_ = cpArg[t]]
    /\ pc' = [pc EXCEPT ![t] = "lock"]
    /\ UNCHANGED <<instance_, useLocking_, numThreads_, isActive_, threadIdCounter_,
                   threadIdVector_, vecCapacity, lockVars, now, cpArg, threadCp, iterLoad,
                   ret, created, initCalls, historyVars, cfg, auxVars, dumpVars>>

\* currentCp = &checkpoints_[checkpoint]; previousCp = &checkpoints_[lastCheckpointHit_];
\* threadCp->lastCheckpointHit_ = checkpoint;
CpPointers(t) ==
    /\ pc[t] = "resolved"
    /\ currentCp' = [currentCp EXCEPT ![t] = cpArg[t]]
    /\ previousCp' = [previousCp EXCEPT ![t] = threadCpInfoMap_[threadCp[t]].lastCheckpointHit_]
    /\ threadCpInfoMap_' =
         [threadCpInfoMap_ EXCEPT ![threadCp[t]].lastCheckpointHit_ = cpArg[t]]
    /\ pc' = [pc EXCEPT ![t] = "lock"]
    /\ UNCHANGED <<instance_, useLocking_, numThreads_, isActive_, threadIdCounter_,
                   threadIdVector_, vecCapacity, lockVars, now, cpArg, threadCp, iterLoad,
                   ret, created, initCalls, historyVars, cfg, auxVars, dumpVars>>

\* if(useLocking_) pthread_mutex_lock(&checkpointLock_); then the load of
\* ++(currentCp->iterations_)
CpLock(t) ==
    /\ pc[t] = "lock"
    /\ IF useLocking_
         THEN checkpointLock_ = 0 /\ checkpointLock_' = t
         ELSE UNCHANGED checkpointLock_
    /\ iterLoad' = [iterLoad EXCEPT
                      ![t] = SlotLoad(threadCpInfoMap_[threadCp[t]], currentCp[t], 0).iterations_]
    /\ pc' = [pc EXCEPT ![t] = "update"]
    /\ UNCHANGED <<instance_, useLocking_, registryVars, rwReaders, rwWriter, now, cpArg,
                   threadCp, currentCp, previousCp, ret, created, initCalls, historyVars,
                   cfg, auxVars, dumpVars>>

\* mutant: the increment of iterations_ is lost
AccumulateNoIncrement(rec, cur, prev, iter, c) ==
    LET stamped == [rec EXCEPT !.checkpoints_[cur].previousCycles_ = c]
    IN  [stamped EXCEPT !.checkpoints_[cur].totalCycles_ =
            @ + (stamped.checkpoints_[cur].previousCycles_
                   - stamped.checkpoints_[prev].previousCycles_)]

\* mutant: the delta is stored, not added
AccumulateAssign(rec, cur, prev, iter, c) ==
    LET stamped == [rec EXCEPT !.checkpoints_[cur].iterations_ = iter + 1,
                               !.checkpoints_[cur].previousCycles_ = c]
    IN  [stamped EXCEPT !.checkpoints_[cur].totalCycles_ =
            stamped.checkpoints_[cur].previousCycles_
              - stamped.checkpoints_[prev].previousCycles_]

\* the record after
\*   ++(currentCp->iterations_);                        (the store)
\*   currentCp->previousCycles_ = getCycles();
\*   currentCp->totalCycles_ += (currentCp->previousCycles_ - previousCp->previousCycles_);
\* where getCycles() returned c and the increment had loaded iter
Accumulate(rec, cur, prev, iter, c) ==
    LET stamped == [rec EXCEPT !.checkpoints_[cur].iterations_ = iter + 1,
                               !.checkpoints_[cur].previousCycles_ = c]
    IN  [stamped EXCEPT !.checkpoints_[cur].totalCycles_ =
            @ + (stamped.checkpoints_[cur].previousCycles_
                   - stamped.checkpoints_[prev].previousCycles_)]

\* the same three statements when currentCp or previousCp points outside the
\* slot array (at its end, index MAX_CHECKPOINT): the stores to iterations_ and
\* totalCycles_ land in creationCycles_ and in lastCheckpointHit_, the store
\* to previousCycles_ lands past the record, and a load from past the record
\* finds word
AccumulateOutside(rec, cur, prev, iter, c, word) ==
    LET previous == IF prev = cur THEN c ELSE SlotLoad(rec, prev, word).previousCycles_
        delta == Wrap64(c - previous)
    IN  IF cur \in CpIds
          THEN [rec EXCEPT !.checkpoints_[cur].iterations_ = iter + 1,
                           !.checkpoints_[cur].previousCycles_ = c,
                           !.checkpoints_[cur].totalCycles_ = Wrap64(@ + delta)]
          ELSE [rec EXCEPT !.creationCycles_ = iter + 1,
                           !.lastCheckpointHit_ = Wrap32(@ + delta)]

CpUpdate(t) ==
    /\ pc[t] = "update"
    /\ \E c \in getCycles :
         /\ now' = c
         /\ lastCallClock' = [lastCallClock EXCEPT ![t] = c]
         /\ IF currentCp[t] \in CpIds /\ previousCp[t] \in CpIds
              THEN threadCpInfoMap_' =
                     [threadCpInfoMap_ EXCEPT ![threadCp[t]] =
                         Accumulate(@, currentCp[t], previousCp[t], iterLoad[t], c)]
              ELSE \E word \in OutsideWords :
                     threadCpInfoMap_' =
                       [threadCpInfoMap_ EXCEPT ![threadCp[t]] =
                           AccumulateOutside(@, currentCp[t], previousCp[t], iterLoad[t],
                                             c, word)]
    /\ inactiveSince' = [inactiveSince EXCEPT ![t] = 0]
    /\ pc' = [pc EXCEPT ![t] = "unlock"]
    /\ UNCHANGED <<instance_, useLocking_, numThreads_, isActive_, threadIdCounter_,
                   threadIdVector_, vecCapacity, lockVars, cpArg, threadCp, currentCp,
                   previousCp, iterLoad, ret, created, initCalls, started, inactiveCalls,
                   completed, callers, findLock, cfg, scoped, scopeLog, wrLocks, mainPc, dumpVars>>

\* if(useLocking_) pthread_mutex_unlock(&checkpointLock_); return
CpUnlock(t) ==
    /\ pc[t] = "unlock"
    /\ IF useLocking_
         THEN checkpointLock_' = 0
         ELSE UNCHANGED checkpointLock_
    /\ completed' = IF cpArg[t] \in CpIds
                      THEN [completed EXCEPT ![t][cpArg[t]] = @ + 1]
                      ELSE completed
    /\ pc' = [pc EXCEPT ![t] = "idle"]
    /\ UNCHANGED <<instance_, useLocking_, registryVars, rwReaders, rwWriter, now, cpArg,
                   threadCp, currentCp, previousCp, iterLoad, ret, created, initCalls,
                   started, inactiveCalls, lastCallClock, callers, findLock, cfg, auxVars, dumpVars>>

----------------------------------------------------------------------------
(* Checkpoint::dump(out, dumpAverages, dumpTput, dumpThreadIds) and         *)
(* Checkpoint::dumpThroughput(out).  A line written to the ostream is a     *)
(* record of the values it prints.                                          *)

DumpFlags == [dumpAverages : BOOLEAN, dumpTput : BOOLEAN, dumpThreadIds : BOOLEAN]

\* the n-th bool a caller passes after the ostream, as the definition of
\* dump() names its parameters
DumpArgument(n) == <<dFlags.dumpAverages, dFlags.dumpTput, dFlags.dumpThreadIds>>[n]

\* mutant: only the total is scaled
getTimeResolutionStrTotalOnly(avgCycles, totalCycles) ==
    IF avgCycles > 99999 /\ totalCycles > 999999
      THEN [unit |-> "Seconds", avgCycles |-> avgCycles,
            totalCycles |-> totalCycles \div 1000000]
    ELSE IF avgCycles > 9999 /\ totalCycles > 99999
      THEN [unit |-> "MilliSec", avgCycles |-> avgCycles,
            totalCycles |-> totalCycles \div 1000]
    ELSE [unit |-> "MicroSec", avgCycles |-> avgCycles, totalCycles |-> totalCycles]

\* getTimeResolutionStr(avgCycles, totalCycles): the label returned and the two
\* reference arguments as it leaves them
getTimeResolutionStr(avgCycles, totalCycles) ==
    IF avgCycles > 99999 /\ totalCycles > 999999
      THEN [unit |-> "Seconds", avgCycles |-> avgCycles \div 1000000,
            totalCycles |-> totalCycles \div 1000000]
    ELSE IF avgCycles > 9999 /\ totalCycles > 99999
      THEN [unit |-> "MilliSec", avgCycles |-> avgCycles \div 1000,
            totalCycles |-> totalCycles \div 1000]
    ELSE [unit |-> "MicroSec", avgCycles |-> avgCycles, totalCycles |-> totalCycles]

\* mutant: the average is computed without the iterations_ != 0 test
DetailLineUnguarded(thread, checkPoint, iterations, total) ==
    IF iterations = 0
      THEN [kind |-> "SIGFPE", checkpoint |-> checkPoint]
      ELSE LET scaled == getTimeResolutionStr(total \div iterations, total)
           IN  [kind |-> "detail", thread |-> thread, checkpoint |-> checkPoint,
                iterations |-> iterations, unit |-> scaled.unit,
                avg |-> scaled.avgCycles, total |-> scaled.totalCycles]

\* one "Thread [..] Checkpoint [..]" line, from the iterations_ and
\* totalCycles_ read from the slot
DetailLine(thread, checkPoint, iterations, total) ==
    LET avgCycles == IF iterations # 0 THEN total \div iterations ELSE 0
        scaled == getTimeResolutionStr(avgCycles, total)
    IN  [kind |-> "detail", thread |-> thread, checkpoint |-> checkPoint,
         iterations |-> iterations, unit |-> scaled.unit,
         avg |-> scaled.avgCycles, total |-> scaled.totalCycles]

\* one "Weighted Average" line, from totalCpAvg[i] and numCpHits[i]; the
\* division by avgCp->iterations_ traps when that is 0
WeightedLine(i, sum, hits) ==
    LET totalCycles == sum.totalCycles_ \div hits
        iterations == sum.iterations_ \div hits
    IN  IF iterations = 0
          THEN [kind |-> "SIGFPE", checkpoint |-> i]
          ELSE LET scaled == getTimeResolutionStr(totalCycles \div iterations, totalCycles)
               IN  [kind |-> "weighted", checkpoint |-> i, iterations |-> iterations,
                    unit |-> scaled.unit, avg |-> scaled.avgCycles,
                    total |-> scaled.totalCycles]

\* mutant: ids hit by a single thread are averaged too
WeightedLinesFromOne(i, sums, hits) ==
    [j \in 1..Cardinality({k \in CpIds : hits[k] > 0}) |->
        LET id == CHOOSE k \in CpIds :
                     /\ hits[k] > 0
                     /\ Cardinality({m \in CpIds : m < k /\ hits[m] > 0}) = j - 1
        IN  WeightedLine(id, sums[id], hits[id])]

\* for(int i = 0; i < MAX_CHECKPOINT; ++i) if(numCpHits[i] > 1) ..., from i on
RECURSIVE WeightedLines(_, _, _)
WeightedLines(i, sums, hits) ==
    IF i >= MAX_CHECKPOINT THEN <<>>
    ELSE (IF hits[i] > 1 THEN <<WeightedLine(i, sums[i], hits[i])>> ELSE <<>>)
           \o WeightedLines(i + 1, sums, hits)

\* mutant: nothing is trimmed
FilterUnusedNone(rec, chkPoint, cur, maxCpIndex) == MAX_CHECKPOINT

\* "Filter out unused checkpoints": the loop
\*   for(chkPoint = MAX_CHECKPOINT; chkPoint > 0; currentCp = &checkpoints_[--chkPoint])
\* entered with loop variable chkPoint, currentCp = &checkpoints_[cur] and
\* maxCpIndex; its result is maxCpIndex
RECURSIVE FilterUnused(_, _, _, _)
FilterUnused(rec, chkPoint, cur, maxCpIndex) ==
    IF chkPoint > 0
      THEN IF rec.checkpoints_[cur].iterations_ = 0
             THEN FilterUnused(rec, chkPoint - 1, chkPoint - 1, chkPoint)
             ELSE maxCpIndex
      ELSE maxCpIndex

\* dumpThroughput: the loop
\*   for(checkPoint = MAX_CHECKPOINT; checkPoint > 0; currentCp = &checkpoints_[--checkPoint])
\* entered with loop variable checkPoint and currentCp = &checkpoints_[cur];
\* its result is maxCpIndex, which is MAX_CHECKPOINT when the loop runs out
RECURSIVE LastCheckpointHit(_, _, _)
LastCheckpointHit(rec, checkPoint, cur) ==
    IF checkPoint > 0
      THEN IF rec.checkpoints_[cur].iterations_ # 0
             THEN checkPoint
             ELSE LastCheckpointHit(rec, checkPoint - 1, checkPoint - 1)
      ELSE MAX_CHECKPOINT

\* threadIdVector_[idx] as an rvalue: the word stored there, or whatever the
\* storage holds when nothing was stored
VecLoad(vec, idx) == IF idx \in DOMAIN vec THEN vec[idx] ELSE Garbage

\* threadCpInfoMap_[key] for each key of keys: std::map::operator[] inserts a
\* default-constructed record where the key is absent
MapTouch(map, keys, rec) ==
    [k \in (DOMAIN map) \cup keys |-> IF k \in DOMAIN map THEN map[k] ELSE rec]

\* the lines of dumpThroughput for the threads from thread on
RECURSIVE ThroughputLines(_, _, _, _)
ThroughputLines(thread, map, maxCpIndex, word) ==
    IF thread >= threadIdCounter_ THEN <<>>
    ELSE LET rec == map[VecLoad(threadIdVector_, thread)]
             slot == SlotLoad(rec, maxCpIndex, word)
         IN  <<[kind |-> "tput_thread", thread |-> thread, ref |-> maxCpIndex,
                startTime |-> rec.creationCycles_, endTime |-> slot.previousCycles_,
                diff |-> Wrap64(slot.previousCycles_ - rec.creationCycles_),
                iterations |-> slot.iterations_]>>
               \o ThroughputLines(thread + 1, map, maxCpIndex, word)

\* the thread-id table
ThreadIdLines ==
    <<[kind |-> "ids", count |-> threadIdCounter_]>>
      \o [i \in 1..threadIdCounter_ |->
            [kind |-> "id", thread |-> i - 1, threadId |-> VecLoad(threadIdVector_, i - 1)]]

\* mutant: the records are walked in the order of the map, by thread identity
DumpKeyByIdentity(thread) ==
    CHOOSE k \in DOMAIN threadCpInfoMap_ :
        Cardinality({j \in DOMAIN threadCpInfoMap_ : j < k}) = thread

\* threadIdVector_[thread]: the key dump() resolves for the loop index thread
DumpKey(thread) == VecLoad(threadIdVector_, thread)

\* dump() is entered: the header line, written before the lock is taken
DumpBegin(fl) ==
    /\ dpc = "idle"
    /\ instance_ # 0
    /\ dumps < cfg.dumps
    /\ fl \in cfg.flags
    /\ dumps' = dumps + 1
    /\ dFlags' = fl
    /\ out' = <<[kind |-> "header", configured |-> numThreads_, used |-> threadIdCounter_]>>
    /\ dpc' = "lock"
    /\ UNCHANGED <<instance_, useLocking_, registryVars, lockVars, now, localVars, ret,
                   created, initCalls, historyVars, cfg, auxVars, dThread, dKey, dMax, dCp, dIter,
                   totalCpAvg, numCpHits>>

\* mutant: dump() does not take the mutex
DumpLockNone ==
    /\ dpc = "lock"
    /\ totalCpAvg' = [i \in CpIds |-> [iterations_ |-> 0, totalCycles_ |-> 0]]
    /\ numCpHits' = [i \in CpIds |-> 0]
    /\ dThread' = 0
    /\ dpc' = "thread"
    /\ UNCHANGED <<instance_, useLocking_, registryVars, lockVars, now, localVars, ret,
                   created, initCalls, historyVars, cfg, auxVars, dFlags, dKey, dMax, dCp, dIter,
                   out, dumps>>

\* if(useLocking_) pthread_mutex_lock(&checkpointLock_); the locals totalCpAvg
\* and numCpHits (the previousCycles_ of totalCpAvg is never read)
DumpLock ==
    /\ dpc = "lock"
    /\ IF useLocking_
         THEN checkpointLock_ = 0 /\ checkpointLock_' = Dumper
         ELSE UNCHANGED checkpointLock_
    /\ totalCpAvg' = [i \in CpIds |-> [iterations_ |-> 0, totalCycles_ |-> 0]]
    /\ numCpHits' = [i \in CpIds |-> 0]
    /\ dThread' = 0
    /\ dpc' = "thread"
    /\ UNCHANGED <<instance_, useLocking_, registryVars, rwReaders, rwWriter, now,
                   localVars, ret, created, initCalls, historyVars, cfg, auxVars, dFlags, dKey,
                   dMax, dCp, dIter, out, dumps>>

\* the head of the loop over the registration index, the resolution of the
\* record, "Filter out unused threads" and "Filter out unused checkpoints"
DumpThread ==
    /\ dpc = "thread"
    /\ IF dThread < threadIdCounter_
         THEN \E rec \in NewRecords :
                LET key == DumpKey(dThread)
                    present == key \in DOMAIN threadCpInfoMap_
                    map == MapTouch(threadCpInfoMap_, {key}, rec)
                    threadUsed == \E i \in CpIds : map[key].checkpoints_[i].iterations_ # 0
                IN  /\ threadCpInfoMap_' = map
                    /\ now' = IF present THEN now ELSE rec.creationCycles_
                    /\ dKey' = key
                    /\ IF threadUsed
                         THEN /\ dMax' = FilterUnused(map[key], MAX_CHECKPOINT,
                                                      MAX_CHECKPOINT - 1, MAX_CHECKPOINT)
                              /\ dCp' = 0
                              /\ dpc' = "iter"
                              /\ UNCHANGED dThread
                         ELSE /\ dThread' = dThread + 1
                              /\ UNCHANGED <<dMax, dCp, dpc>>
         ELSE /\ dpc' = "avg"
              /\ UNCHANGED <<threadCpInfoMap_, now, dKey, dMax, dCp, dThread>>
    /\ UNCHANGED <<instance_, useLocking_, numThreads_, isActive_, threadIdCounter_,
                   threadIdVector_, vecCapacity, lockVars, localVars, ret, created,
                   initCalls, historyVars, cfg, auxVars, dFlags, dIter, totalCpAvg, numCpHits, out,
                   dumps>>

\* mutant: the loop over the registration index ends after the first section
DumpIterOneSection ==
    /\ dpc = "iter"
    /\ IF dCp < dMax
         THEN /\ dIter' = threadCpInfoMap_[dKey].checkpoints_[dCp].iterations_
              /\ dpc' = "total"
              /\ UNCHANGED dThread
         ELSE /\ dThread' = threadIdCounter_
              /\ dpc' = "thread"
              /\ UNCHANGED dIter
    /\ UNCHANGED <<instance_, useLocking_, registryVars, lockVars, now, localVars, ret,
                   created, initCalls, historyVars, cfg, auxVars, dFlags, dKey, dMax, dCp,
                   totalCpAvg, numCpHits, out, dumps>>

\* the head of the loop over the slots and the read of currentCp->iterations_
DumpIter ==
    /\ dpc = "iter"
    /\ IF dCp < dMax
         THEN /\ dIter' = threadCpInfoMap_[dKey].checkpoints_[dCp].iterations_
              /\ dpc' = "total"
              /\ UNCHANGED dThread
         ELSE /\ dThread' = dThread + 1
              /\ dpc' = "thread"
              /\ UNCHANGED dIter
    /\ UNCHANGED <<instance_, useLocking_, registryVars, lockVars, now, localVars, ret,
                   created, initCalls, historyVars, cfg, auxVars, dFlags, dKey, dMax, dCp,
                   totalCpAvg, numCpHits, out, dumps>>

\* the read of currentCp->totalCycles_, totalCpAvg[checkPoint] += currentCp,
\* numCpHits[checkPoint]++ and the line of the slot
DumpTotal ==
    /\ dpc = "total"
    /\ LET total == threadCpInfoMap_[dKey].checkpoints_[dCp].totalCycles_
       IN  /\ IF dIter # 0
                THEN /\ totalCpAvg' = [totalCpAvg EXCEPT
                                         ![dCp].iterations_ = @ + dIter,
                                         ![dCp].totalCycles_ = @ + total]
                     /\ numCpHits' = [numCpHits EXCEPT ![dCp] = @ + 1]
                ELSE UNCHANGED <<totalCpAvg, numCpHits>>
           /\ out' = Append(out, DetailLine(dThread, dCp, dIter, total))
    /\ dCp' = dCp + 1
    /\ dpc' = "iter"
    /\ UNCHANGED <<instance_, useLocking_, registryVars, lockVars, now, localVars, ret,
                   created, initCalls, historyVars, cfg, auxVars, dFlags, dThread, dKey, dMax,
                   dIter, dumps>>

\* if(dumpAverages) the weighted averages
DumpAverages ==
    /\ dpc = "avg"
    /\ out' = IF dFlags.dumpAverages
                THEN out \o WeightedLines(0, totalCpAvg, numCpHits)
                ELSE out
    /\ dpc' = "tput"
    /\ UNCHANGED <<instance_, useLocking_, registryVars, lockVars, now, localVars, ret,
                   created, initCalls, historyVars, cfg, auxVars, dumpLocals, dumps>>

\* if(dumpTput) dumpThroughput(out)
DumpTput ==
    /\ dpc = "tput"
    /\ IF dFlags.dumpTput
         THEN \E rec \in NewRecords, word \in OutsideWords :
                LET keys == {VecLoad(threadIdVector_, i) :
                                i \in {0} \cup (0..(threadIdCounter_ - 1))}
                    map == MapTouch(threadCpInfoMap_, keys, rec)
                    threadZeroCps == map[VecLoad(threadIdVector_, 0)]
                    maxCpIndex == LastCheckpointHit(threadZeroCps, MAX_CHECKPOINT,
                                                    MAX_CHECKPOINT - 1)
                IN  /\ threadCpInfoMap_' = map
                    /\ now' = IF keys \subseteq DOMAIN threadCpInfoMap_
                                THEN now ELSE rec.creationCycles_
                    /\ out' = (out \o <<[kind |-> "tput", checkpoint |-> maxCpIndex]>>)
                                \o ThroughputLines(0, map, maxCpIndex, word)
         ELSE UNCHANGED <<threadCpInfoMap_, now, out>>
    /\ dpc' = "ids"
    /\ UNCHANGED <<instance_, useLocking_, numThreads_, isActive_, threadIdCounter_,
                   threadIdVector_, vecCapacity, lockVars, localVars, ret, created,
                   initCalls, historyVars, cfg, auxVars, dumpLocals, dumps>>

\* if(dumpThreadIds) the thread-id table
DumpThreadIds ==
    /\ dpc = "ids"
    /\ out' = IF dFlags.dumpThreadIds THEN out \o ThreadIdLines ELSE out
    /\ dpc' = "unlock"
    /\ UNCHANGED <<instance_, useLocking_, registryVars, lockVars, now, localVars, ret,
                   created, initCalls, historyVars, cfg, auxVars, dumpLocals, dumps>>

\* mutant: dump() returns with the mutex held
DumpUnlockKeep ==
    /\ dpc = "unlock"
    /\ dpc' = "idle"
    /\ UNCHANGED <<instance_, useLocking_, registryVars, lockVars, now, localVars, ret,
                   created, initCalls, historyVars, cfg, auxVars, dumpLocals, out, dumps>>

\* if(useLocking_) pthread_mutex_unlock(&checkpointLock_); return
DumpUnlock ==
    /\ dpc = "unlock"
    /\ IF useLocking_
         THEN checkpointLock_' = 0
         ELSE UNCHANGED checkpointLock_
    /\ dpc' = "idle"
    /\ UNCHANGED <<instance_, useLocking_, registryVars, rwReaders, rwWriter, now,
                   localVars, ret, created, initCalls, historyVars, cfg, auxVars, dumpLocals, out,
                   dumps>>

DumpStep ==
    \/ DumpLock
    \/ DumpThread
    \/ DumpIter
    \/ DumpTotal
    \/ DumpAverages
    \/ DumpTput
    \/ DumpThreadIds
    \/ DumpUnlock

----------------------------------------------------------------------------
Next ==
    \/ \E n \in NumThreadsArgs, l \in BOOLEAN : Initialize(n, l)
    \/ \E t \in Threads : Instance(t)
    \/ Destroy
    \/ \E a \in BOOLEAN : SetActive(a)
    \/ \E t \in Threads, id \in CpIds : CpBegin(t, id)
    \/ \E t \in Threads : StInsert(t)
    \/ \E t \in Threads : RdLock(t)
    \/ \E t \in Threads : Find(t)
    \/ \E t \in Threads : WrRequest(t)
    \/ \E t \in Threads : WrLock(t)
    \/ \E t \in Threads : RegIndex(t)
    \/ \E t \in Threads : RegInsert(t)
    \/ \E t \in Threads : CpPointers(t)
    \/ \E t \in Threads : CpLock(t)
    \/ \E t \in Threads : CpUpdate(t)
    \/ \E t \in Threads : CpUnlock(t)

\* recording on one registry that is never destroyed
NextConc ==
    \/ \E n \in NumThreadsArgs, l \in BOOLEAN : Initialize(n, l)
    \/ \E t \in Threads, id \in CpIds : CpBegin(t, id)
    \/ \E t \in Threads : StInsert(t)
    \/ \E t \in Threads : RdLock(t)
    \/ \E t \in Threads : Find(t)
    \/ \E t \in Threads : WrRequest(t)
    \/ \E t \in Threads : WrLock(t)
    \/ \E t \in Threads : RegIndex(t)
    \/ \E t \in Threads : RegInsert(t)
    \/ \E t \in Threads : CpPointers(t)
    \/ \E t \in Threads : CpLock(t)
    \/ \E t \in Threads : CpUpdate(t)
    \/ \E t \in Threads : CpUnlock(t)

NextTime ==
    \/ NextConc
    \/ \E a \in BOOLEAN : SetActive(a)

Spec == Init /\ [][Next]_vars
SpecConc == InitConc /\ [][NextConc]_vars
SpecTime == InitTime /\ [][NextTime]_vars

----------------------------------------------------------------------------
(* Runs that dump *)

\* the record and the clock after the calls of hist, a sequence of
\* <<id, pause before the call>>, made by the record's thread since clock
RECURSIVE Replay(_, _, _)
Replay(rec, clock, hist) ==
    IF hist = <<>> THEN [rec |-> rec, clock |-> clock]
    ELSE LET id == Head(hist)[1]
             c == clock + Head(hist)[2]
             prev == rec.lastCheckpointHit_
             hit == [rec EXCEPT !.lastCheckpointHit_ = id]
         IN  Replay(Accumulate(hit, id, prev, hit.checkpoints_[id].iterations_, c),
                    c, Tail(hist))

\* the call sequences of at most n calls
Histories(n) == UNION {[1..k -> CpIds \X Pauses] : k \in 1..n}

CountOf(hist, id) == Cardinality({j \in DOMAIN hist : hist[j][1] = id})

\* a reporting run: initialize(2, true), then thread 1 and after it thread 2
\* made their calls and returned; what is left is the dump, of the detail
\* alone or of everything
InitReport ==
    \E h1 \in Histories(HistLen), h2 \in Histories(1),
       tid \in {ThreadIds, [t \in Threads |-> Cardinality(Threads) + 1 - t]} :
        LET hist == <<h1, h2>>
            done == [t \in Threads |-> Replay(ThreadCheckpointInfo(0, 0, 0), 0, hist[t])]
            end == IF done[1].clock > done[2].clock THEN done[1].clock ELSE done[2].clock
        IN  /\ instance_ = 1
            /\ useLocking_ = TRUE
            /\ numThreads_ = Cardinality(Threads)
            /\ isActive_ = TRUE
            /\ threadIdCounter_ = Cardinality(Threads)
            /\ threadCpInfoMap_ = [k \in {tid[t] : t \in Threads} |->
                                     done[CHOOSE t \in Threads : tid[t] = k].rec]
            /\ threadIdVector_ = [i \in 0..(Cardinality(Threads) - 1) |-> tid[i + 1]]
            /\ vecCapacity = Cardinality(Threads)
            /\ checkpointLock_ = 0
            /\ rwReaders = {}
            /\ rwWriter = 0
            /\ now = end
            /\ pc = [t \in Threads |-> "idle"]
            /\ cpArg = [t \in Threads |-> hist[t][Len(hist[t])][1]]
            /\ threadCp = [t \in Threads |-> tid[t]]
            /\ currentCp = [t \in Threads |-> hist[t][Len(hist[t])][1]]
            /\ previousCp = [t \in Threads |->
                               IF Len(hist[t]) > 1 THEN hist[t][Len(hist[t]) - 1][1] ELSE 0]
            /\ iterLoad = [t \in Threads |->
                             CountOf(hist[t], hist[t][Len(hist[t])][1]) - 1]
            /\ ret = 0
            /\ created = 1
            /\ initCalls = 1
            /\ started = [t \in Threads |-> Len(hist[t])]
            /\ inactiveCalls = [t \in Threads |-> 0]
            /\ completed = [t \in Threads |-> [i \in CpIds |-> CountOf(hist[t], i)]]
            /\ lastCallClock = [t \in Threads |-> done[t].clock]
            /\ callers = Threads
            /\ findLock = [t \in Threads |-> "rd"]
            /\ cfg = [calls |-> [t \in Threads |-> Len(hist[t])], ids |-> CpIds,
                      maxClock |-> end, maxInit |-> 1, maxCreated |-> 1, tid |-> tid,
                      dumps |-> 1,
                      flags |-> {fl \in DumpFlags :
                                   fl.dumpTput = fl.dumpAverages
                                     /\ fl.dumpThreadIds = fl.dumpAverages},
                      hist |-> hist]
            /\ dpc = "idle"
            /\ dFlags = [dumpAverages |-> FALSE, dumpTput |-> FALSE, dumpThreadIds |-> FALSE]
            /\ dThread = 0
            /\ dKey = 0
            /\ dMax = 0
            /\ dCp = 0
            /\ dIter = 0
            /\ totalCpAvg = [i \in CpIds |-> [iterations_ |-> 0, totalCycles_ |-> 0]]
            /\ numCpHits = [i \in CpIds |-> 0]
            /\ out = <<>>
            /\ dumps = 0
            /\ scoped = [t \in Threads |-> NoScope]
            /\ scopeLog = [t \in Threads |-> <<>>]
            /\ inactiveSince = [t \in Threads |-> 0]
            /\ wrLocks = [t \in Threads |-> 1]
            /\ mainPc = "start"

\* a live-dump run: after initialize(2, useLocking) the threads record while
\* another thread dumps
InitDump ==
    /\ BaseInit
    /\ cfg = [calls |-> [t \in Threads |-> IF t = 1 THEN DumpCalls ELSE 1],
              ids |-> {0, MAX_CHECKPOINT - 1}, maxClock |-> 0, maxInit |-> 1,
              maxCreated |-> 1, tid |-> ThreadIds, dumps |-> 1,
              flags |-> {[dumpAverages |-> TRUE, dumpTput |-> TRUE, dumpThreadIds |-> TRUE]}]

NextReport ==
    \/ \E fl \in DumpFlags : DumpBegin(fl)
    \/ DumpStep

NextDump ==
    \/ \E l \in BOOLEAN : Initialize(Cardinality(Threads), l)
    \/ \E t \in Threads, id \in CpIds : CpBegin(t, id)
    \/ \E t \in Threads : RdLock(t)
    \/ \E t \in Threads : Find(t)
    \/ \E t \in Threads : WrRequest(t)
    \/ \E t \in Threads : WrLock(t)
    \/ \E t \in Threads : RegIndex(t)
    \/ \E t \in Threads : RegInsert(t)
    \/ \E t \in Threads : CpPointers(t)
    \/ \E t \in Threads : CpLock(t)
    \/ \E t \in Threads : CpUpdate(t)
    \/ \E t \in Threads : CpUnlock(t)
    \/ \E fl \in DumpFlags : DumpBegin(fl)
    \/ DumpStep

\* the unit-scaling rule on its own: one slot, or one averaged slot, whose
\* iterations and total are drawn from values around the thresholds
ScaleIterations == {1, 2, 10}
ScaleTotals == {0, 9999, 10000, 19998, 99999, 100000, 999999, 1000000, 1999998,
                2000000, 10000000}

InitScale ==
    /\ BaseInit
    /\ \E iterations \in ScaleIterations, total \in ScaleTotals :
          cfg = [calls |-> [t \in Threads |-> 0], ids |-> {}, maxClock |-> 0,
                 maxInit |-> 0, maxCreated |-> 0, tid |-> ThreadIds, dumps |-> 0,
                 flags |-> {}, iterations |-> iterations, total |-> total,
                 hits |-> Cardinality(Threads)]

\* the line of a slot that holds cfg.iterations and cfg.total
ScaleDetail ==
    /\ \A j \in DOMAIN out : out[j].kind # "detail"
    /\ out' = Append(out, DetailLine(0, 0, cfg.iterations, cfg.total))
    /\ UNCHANGED <<instance_, useLocking_, registryVars, lockVars, now, localVars, ret,
                   created, initCalls, historyVars, cfg, auxVars, dpc, dumpLocals, dumps>>

\* the weighted line of an id for which cfg.hits threads hold such a slot
ScaleWeighted ==
    /\ \A j \in DOMAIN out : out[j].kind # "weighted"
    /\ out' = Append(out, WeightedLine(0, [iterations_ |-> cfg.iterations * cfg.hits,
                                           totalCycles_ |-> cfg.total * cfg.hits],
                                       cfg.hits))
    /\ UNCHANGED <<instance_, useLocking_, registryVars, lockVars, now, localVars, ret,
                   created, initCalls, historyVars, cfg, auxVars, dpc, dumpLocals, dumps>>

NextScale ==
    \/ ScaleDetail
    \/ ScaleWeighted

SpecScale == InitScale /\ [][NextScale]_vars
SpecReport == InitReport /\ [][NextReport]_vars
SpecDump == InitDump /\ [][NextDump]_vars

\* the steps of thread t inside a call it has started
ThreadStep(t) ==
    \/ RdLock(t)
    \/ Find(t)
    \/ WrRequest(t)
    \/ WrLock(t)
    \/ RegIndex(t)
    \/ RegInsert(t)
    \/ CpPointers(t)
    \/ CpLock(t)
    \/ CpUpdate(t)
    \/ CpUnlock(t)

\* a live-dump run in locking mode, every call on the first id
InitLive ==
    /\ BaseInit
    /\ cfg = [calls |-> [t \in Threads |-> IF t = 1 THEN DumpCalls ELSE 1],
              ids |-> {0}, maxClock |-> 0, maxInit |-> 1, maxCreated |-> 1,
              tid |-> ThreadIds, dumps |-> 1,
              flags |-> {[dumpAverages |-> TRUE, dumpTput |-> TRUE, dumpThreadIds |-> TRUE]}]

NextLive ==
    \/ Initialize(Cardinality(Threads), TRUE)
    \/ \E t \in Threads, id \in CpIds : CpBegin(t, id)
    \/ \E t \in Threads : ThreadStep(t)
    \/ \E fl \in DumpFlags : DumpBegin(fl)
    \/ DumpStep

\* that run under a scheduler that lets every thread that can take a step
\* take one eventually; whether a call or a dump is started is up to the
\* program
SpecLive ==
    /\ InitLive
    /\ [][NextLive]_vars
    /\ \A t \in Threads : WF_vars(ThreadStep(t))
    /\ WF_vars(DumpStep)

----------------------------------------------------------------------------
(* Runs with pauses *)

\* the program sleeps or works between two calls while the clock advances;
\* with the registry inactive that time is time spent inactive
Pause ==
    /\ \A t \in Threads : pc[t] = "idle"
    /\ now < cfg.maxClock
    /\ now' = now + 1
    /\ inactiveSince' = [t \in Threads |->
                           IF instance_ # 0 /\ ~isActive_
                             THEN inactiveSince[t] + 1 ELSE inactiveSince[t]]
    /\ UNCHANGED <<instance_, useLocking_, registryVars, lockVars, localVars, ret, created,
                   initCalls, historyVars, cfg, scoped, scopeLog, wrLocks, mainPc, dumpVars>>

\* a run with pauses: one thread records, the registry is switched off and on
InitWarm ==
    /\ BaseInit
    /\ cfg = [calls |-> [t \in Threads |-> IF t = 1 THEN WarmCalls ELSE 0], ids |-> CpIds,
              maxClock |-> WarmClock, maxInit |-> 1, maxCreated |-> 1, tid |-> ThreadIds]

NextWarm ==
    \/ NextTime
    \/ Pause

SpecWarm == InitWarm /\ [][NextWarm]_vars

----------------------------------------------------------------------------
(* ScopedCheckpoint *)

\* the members as the constructors' initializer lists set them
ScopedObject(startCheckpoint, lastCheckpoint) ==
    [live |-> TRUE, startCheckpointNumber_ |-> startCheckpoint,
     lastCheckpointNumber_ |-> lastCheckpoint]

\* ScopedCheckpoint(checkpoint) and ScopedCheckpoint(startCheckpoint, lastCheckpoint),
\* constructed by thread t with the arguments args
ScopeEnter(t, args) ==
    /\ args \in cfg.scopeArgs
    /\ ~scoped[t].live
    /\ scopeLog[t] = <<>>
    /\ LET object == IF Len(args) = 1
                       THEN ScopedObject(args[1], args[1] + 1)
                       ELSE ScopedObject(args[1], args[2])
       IN  /\ scoped' = [scoped EXCEPT ![t] = object]
           /\ InstanceCheckpoint(t, object.startCheckpointNumber_)
           /\ scopeLog' = [scopeLog EXCEPT
                             ![t] = <<ScopeCall(object.startCheckpointNumber_, "ctor")>>]

\* mutant: the destructor records the entry checkpoint again
ScopeExitAtStart(t) ==
    /\ scoped[t].live
    /\ InstanceCheckpoint(t, scoped[t].startCheckpointNumber_)
    /\ scopeLog' = [scopeLog EXCEPT
                      ![t] = Append(@, ScopeCall(scoped[t].startCheckpointNumber_, "dtor"))]
    /\ scoped' = [scoped EXCEPT ![t] = NoScope]

\* ~ScopedCheckpoint(): thread t leaves the scope of its object
ScopeExit(t) ==
    /\ scoped[t].live
    /\ InstanceCheckpoint(t, scoped[t].lastCheckpointNumber_)
    /\ scopeLog' = [scopeLog EXCEPT
                      ![t] = Append(@, ScopeCall(scoped[t].lastCheckpointNumber_, "dtor"))]
    /\ scoped' = [scoped EXCEPT ![t] = NoScope]

\* the constructor arguments of a scoped run: every id, every pair of ids
ScopeArgs ==
    {<<s>> : s \in CpIds} \cup {<<s, l>> : s \in CpIds, l \in CpIds}

\* a scoped run: the first thread constructs an object, calls inside and
\* outside its scope and leaves it
InitScope ==
    /\ BaseInit
    /\ \E args \in ScopeArgs :
          cfg = [calls |-> [t \in Threads |-> IF t = 1 THEN ScopeCalls ELSE 0],
                 ids |-> 0..MAX_CHECKPOINT, maxClock |-> 0, maxInit |-> 0, maxCreated |-> 1,
                 tid |-> ThreadIds, scopeArgs |-> {args}]

NextScope ==
    \/ \E args \in ScopeArgs : ScopeEnter(1, args)
    \/ ScopeExit(1)
    \/ \E t \in Threads, id \in CpIds : CpBegin(t, id)
    \/ \E t \in Threads : ThreadStep(t)

SpecScope == InitScope /\ [][NextScope]_vars

----------------------------------------------------------------------------
(* The threaded example driver *)

\* threadEntryPoint: CHECKPOINT(0); numLoops times the loop body; a closing
\* checkpoint.  The driver's three loop checkpoints 1, 2, 3 are one here and
\* its closing checkpoint 4 is the id after it, so that the program fits the
\* smallest slot array of the model.
RECURSIVE LoopBody(_)
LoopBody(numLoops) == IF numLoops = 0 THEN <<>> ELSE <<1>> \o LoopBody(numLoops - 1)

threadEntryPoint(numLoops) == (<<0>> \o LoopBody(numLoops)) \o <<2>>

\* a driver run with config.numThreads threads, the first ones of Threads
InitDriver ==
    /\ BaseInit
    /\ \E numThreads \in 1..Cardinality(Threads) :
          cfg = [calls |-> [t \in Threads |->
                              IF t <= numThreads THEN Len(threadEntryPoint(DriverLoops)) ELSE 0],
                 ids |-> CpIds, maxClock |-> 0, maxInit |-> 1, maxCreated |-> 1,
                 tid |-> ThreadIds, dumps |-> 1,
                 flags |-> {[dumpAverages |-> FALSE, dumpTput |-> FALSE,
                             dumpThreadIds |-> FALSE]},
                 numThreads |-> numThreads,
                 program |-> threadEntryPoint(DriverLoops)]

\* main: Checkpoint::initialize(input.numThreads, input.lipLocking)
DriverInitialize(lipLocking) == Initialize(cfg.numThreads, lipLocking)

\* the next CHECKPOINT of thread t's program; the threads are created after
\* initialize() has returned
DriverCall(t) ==
    /\ initCalls = 1
    /\ started[t] < cfg.calls[t]
    /\ CpBegin(t, cfg.program[started[t] + 1])

\* every thread has returned from threadEntryPoint
DriverJoined ==
    \A t \in Threads : pc[t] = "idle" /\ started[t] = cfg.calls[t]

\* main: after the last pthread_join, Checkpoint::instance()->dump()
DriverDump(fl) ==
    /\ DriverJoined
    /\ DumpBegin(fl)

NextDriver ==
    \/ \E l \in BOOLEAN : DriverInitialize(l)
    \/ \E t \in Threads : DriverCall(t)
    \/ \E t \in Threads : ThreadStep(t)
    \/ \E fl \in DumpFlags : DriverDump(fl)
    \/ DumpStep

SpecDriver == InitDriver /\ [][NextDriver]_vars

\* a throughput run: the threads have stopped at different points of the
\* driver's program, the first one before its closing checkpoint, the second
\* one after its first checkpoint; the clock advances, and main dumps
\* everything as the non-threaded driver does (dump(true, true, true, true))
InitTput ==
    /\ BaseInit
    /\ cfg = [calls |-> [t \in Threads |->
                          IF t = 1 THEN Len(threadEntryPoint(DriverLoops)) - 1 ELSE 1],
              ids |-> CpIds, maxClock |-> TputClock, maxInit |-> 1, maxCreated |-> 1,
              tid |-> ThreadIds, dumps |-> 1,
              flags |-> {[dumpAverages |-> TRUE, dumpTput |-> TRUE, dumpThreadIds |-> TRUE]},
              numThreads |-> Cardinality(Threads),
              program |-> threadEntryPoint(DriverLoops)]

SpecTput == InitTput /\ [][NextDriver]_vars

----------------------------------------------------------------------------
(* Scripted runs: one thread, its ids and the clock readings given *)

\* what the record's construction reads: the advance of the clock during it
\* and the slot from which the later value is seen
Births == {0, 1} \X {0, MAX_CHECKPOINT}

\* the call sequences of exactly n calls, each <<id, advance of the clock>>
Scripts(n) == [1..n -> CpIds \X {0, 1}]

\* a scripted run: initialize(n, l) in either mode, then the first thread
\* makes the calls of the script against the readings of the script
InitMode ==
    /\ BaseInit
    /\ \E script \in Scripts(ModeCalls), birth \in Births :
          cfg = [calls |-> [t \in Threads |-> IF t = 1 THEN ModeCalls ELSE 0],
                 ids |-> CpIds, maxClock |-> ModeCalls + 1, maxInit |-> 1, maxCreated |-> 1,
                 tid |-> ThreadIds, script |-> script, birth |-> birth]

\* the next call of the script
ModeCall(t) ==
    /\ initCalls = 1
    /\ started[t] < cfg.calls[t]
    /\ CpBegin(t, cfg.script[started[t] + 1][1])

\* the construction of the thread's record, in either mode, with the clock
\* readings of the script
ModeCreate(t) ==
    /\ StInsert(t) \/ RegInsert(t)
    /\ now' = now + cfg.birth[1]
    /\ \A i \in CpIds :
          threadCpInfoMap_'[threadCp'[t]].checkpoints_[i].previousCycles_
            = IF i < cfg.birth[2] THEN now ELSE now'

\* the accumulation of the call in progress, with the clock reading of the script
ModeUpdate(t) ==
    /\ CpUpdate(t)
    /\ now' = now + cfg.script[started[t]][2]

NextMode ==
    \/ \E n \in NumThreadsArgs, l \in BOOLEAN : Initialize(n, l)
    \/ ModeCall(1)
    \/ ModeCreate(1)
    \/ ModeUpdate(1)
    \/ RdLock(1)
    \/ Find(1)
    \/ WrRequest(1)
    \/ WrLock(1)
    \/ RegIndex(1)
    \/ CpPointers(1)
    \/ CpLock(1)
    \/ CpUnlock(1)

SpecMode == InitMode /\ [][NextMode]_vars

----------------------------------------------------------------------------
(* The intermediate source variant: tear-down between two initialize() calls *)

\* the numThreads arguments the main thread passes to its two initialize() calls
TeardownArgs == {1, 2} \X {1, 2}

\* Checkpoint::Checkpoint(numThreads) of the variant: threadIdVector_.reserve(numThreads)
ConstructIntermediate(numThreads) ==
    /\ created' = created + 1
    /\ instance_' = created + 1
    /\ numThreads_' = numThreads
    /\ isActive_' = TRUE
    /\ threadIdCounter_' = 0
    /\ threadCpInfoMap_' = EmptyFn
    /\ threadIdVector_' = EmptyFn
    /\ vecCapacity' = numThreads
    /\ checkpointLock_' = 0
    /\ rwReaders' = {}
    /\ rwWriter' = 0

\* a run of the variant: main initializes, one thread records, main destroys
\* and initializes again
InitTeardown ==
    /\ BaseInit
    /\ \E args \in TeardownArgs :
          cfg = [calls |-> [t \in Threads |-> IF t = 1 THEN TeardownCalls ELSE 0],
                 ids |-> CpIds, maxClock |-> 0, maxInit |-> 2, maxCreated |-> 2,
                 tid |-> ThreadIds, args |-> args]

\* Checkpoint::initialize(numThreads, useLocking) of the variant, called by main
\* with the next argument of the run
InitializeIntermediate(useLocking) ==
    /\ mainPc \in {"start", "destroyed"}
    /\ \A t \in Threads : pc[t] = "idle"
    /\ initCalls < cfg.maxInit
    /\ initCalls' = initCalls + 1
    /\ useLocking_' = useLocking
    /\ IF instance_ = 0
         THEN created < cfg.maxCreated /\ ConstructIntermediate(cfg.args[initCalls + 1])
         ELSE UNCHANGED <<instance_, created, registryVars, lockVars>>
    /\ mainPc' = IF mainPc = "start" THEN "recording" ELSE "again"
    /\ UNCHANGED <<now, localVars, ret, historyVars, cfg, scoped, scopeLog, inactiveSince,
                   wrLocks, dumpVars>>

\* a checkpoint call of thread t between main's first initialize() and its destroy()
TeardownCall(t) ==
    /\ mainPc = "recording"
    /\ \E id \in cfg.ids : CpBegin(t, id)

\* Checkpoint::destroy() of the variant, called by main once every thread is
\* finished: if(instance_ == 0) { delete instance_; instance_ = 0; }
DestroyIntermediate ==
    /\ mainPc = "recording"
    /\ \A t \in Threads : pc[t] = "idle"
    /\ IF instance_ = 0
         THEN instance_' = 0
         ELSE UNCHANGED instance_
    /\ mainPc' = "destroyed"
    /\ UNCHANGED <<useLocking_, registryVars, lockVars, now, localVars, ret, created,
                   initCalls, historyVars, cfg, scoped, scopeLog, inactiveSince, wrLocks,
                   dumpVars>>

NextTeardown ==
    \/ \E l \in BOOLEAN : InitializeIntermediate(l)
    \/ TeardownCall(1)
    \/ ThreadStep(1)
    \/ DestroyIntermediate

SpecTeardown == InitTeardown /\ [][NextTeardown]_vars

----------------------------------------------------------------------------
(* Vocabulary of the properties *)

\* the key getThreadCpInfo() resolves for thread t
KeyOf(t) == IF numThreads_ = 0 THEN 0 ELSE pthread_self(t)

Registered(t) == instance_ # 0 /\ KeyOf(t) \in DOMAIN threadCpInfoMap_
RecordOf(t) == threadCpInfoMap_[KeyOf(t)]

\* thread t is the only writer of the record it resolves
OwnsRecord(t) == Registered(t) /\ (numThreads_ # 0 \/ callers \subseteq {t})

AllIdle == \A t \in Threads : pc[t] = "idle"

RECURSIVE SumOver(_, _)
SumOver(f, S) ==
    IF S = {} THEN 0
    ELSE LET x == CHOOSE y \in S : TRUE IN f[x] + SumOver(f, S \ {x})

CallsCompleted(t) == SumOver(completed[t], CpIds)
TotalElapsed(rec) == SumOver([i \in CpIds |-> rec.checkpoints_[i].totalCycles_], CpIds)

----------------------------------------------------------------------------
(* C1: between an initialize and the next destroy, further initialize and   *)
(* instance() calls create no second registry: instance_ keeps its value,   *)
(* instance() returns it, and the capacity, the thread records, the         *)
(* registration index and the count are as they were.                       *)
C1_InitializeIsIdempotent ==
    [][ (instance_ # 0 /\ (initCalls' # initCalls \/ (ret' # ret /\ ret' # 0)))
          => /\ instance_' = instance_
             /\ created' = created
             /\ (ret' # ret => ret' = instance_)
             /\ UNCHANGED registryVars ]_vars

\* a second initialize() and an instance() call have met a registry that
\* holds thread records
C1_Witness ==
    /\ instance_ = 1 /\ created = 1 /\ initCalls = 2 /\ ret = 1
    /\ threadIdCounter_ > 0
    /\ DOMAIN threadCpInfoMap_ # {}

(* C2: for every thread and id, iterations_ of the thread's slot is the     *)
(* number of checkpoint(id) calls the thread completed while the registry   *)
(* was active (one more while such a call is between its increment and its  *)
(* return); a thread that completed none has no record or zero counts.      *)
C2_IterationsCountCalls ==
    \A t \in Threads :
        /\ OwnsRecord(t) =>
             \A i \in CpIds :
                LET iters == RecordOf(t).checkpoints_[i].iterations_ IN
                IF pc[t] = "unlock" /\ cpArg[t] = i
                  THEN iters = completed[t][i] + 1
                  ELSE iters = completed[t][i]
        /\ ~Registered(t) => CallsCompleted(t) = 0

\* N = TimeCalls calls of checkpoint(k), with calls made while inactive in between
C2_Witness ==
    \E k \in CpIds :
        /\ OwnsRecord(1) /\ pc[1] = "idle"
        /\ completed[1][k] = 2 /\ inactiveCalls[1] = 1
        /\ RecordOf(1).checkpoints_[k].iterations_ = 2
        /\ \A i \in CpIds \ {k} : RecordOf(1).checkpoints_[i].iterations_ = 0

(* C3: in multi-threaded mode, under every interleaving, once all threads   *)
(* have returned each thread's own record counts that thread's calls and    *)
(* the counts of all records add up to the calls of all threads; and no     *)
(* step of a thread B changes the record of another thread A.               *)
C3_Final ==
    (instance_ # 0 /\ numThreads_ # 0 /\ AllIdle) =>
        /\ \A t \in callers : \A i \in CpIds :
              /\ Registered(t)
              /\ RecordOf(t).checkpoints_[i].iterations_ = completed[t][i]
        /\ \A i \in CpIds :
              SumOver([k \in DOMAIN threadCpInfoMap_ |->
                          threadCpInfoMap_[k].checkpoints_[i].iterations_],
                      DOMAIN threadCpInfoMap_)
                = SumOver([t \in Threads |-> completed[t][i]], Threads)

C3_Step ==
    \A a \in Threads : \A b \in Threads \ {a} :
        (numThreads_ # 0 /\ pc'[b] # pc[b] /\ pthread_self(a) \in DOMAIN threadCpInfoMap_)
           => /\ pthread_self(a) \in DOMAIN threadCpInfoMap_'
              /\ threadCpInfoMap_'[pthread_self(a)] = threadCpInfoMap_[pthread_self(a)]

C3_ThreadsDoNotInterfere == []C3_Final /\ [][C3_Step]_vars

\* T = 2 threads have each called checkpoint(k) M = ConcCalls times
C3_Witness ==
    /\ instance_ # 0 /\ numThreads_ # 0 /\ AllIdle
    /\ \A t \in Threads :
          /\ completed[t][0] = ConcCalls
          /\ Registered(t)
          /\ RecordOf(t).checkpoints_[0].iterations_ = ConcCalls

(* C4: for a single thread and any sequence of checkpoint calls, the        *)
(* totalCycles_ of all slots of its record add up to the clock value of the *)
(* last call minus the record's creation timestamp.                         *)
C4_DeltasTelescope ==
    \A t \in Threads :
        (OwnsRecord(t) /\ pc[t] = "idle" /\ CallsCompleted(t) >= 1) =>
            TotalElapsed(RecordOf(t)) = lastCallClock[t] - RecordOf(t).creationCycles_

(* C5: after N >= 1 calls of checkpoint(k) on one thread and no other id,   *)
(* totalCycles_ of slot k is the clock value of the last call minus the     *)
(* record's creation timestamp.                                             *)
C5_SingleIdElapsed ==
    \A t \in Threads, k \in CpIds :
        (/\ OwnsRecord(t) /\ pc[t] = "idle"
         /\ completed[t][k] >= 1
         /\ \A i \in CpIds \ {k} : completed[t][i] = 0) =>
            RecordOf(t).checkpoints_[k].totalCycles_
              = lastCallClock[t] - RecordOf(t).creationCycles_

(* C6: the first active checkpoint(id) call of a thread, for every id       *)
(* including 0, adds the clock value of that call minus the record's        *)
(* creation timestamp to slot id.                                           *)
C6_FirstCallFromCreation ==
    \A t \in Threads, id \in CpIds :
        (/\ OwnsRecord(t) /\ pc[t] = "idle"
         /\ CallsCompleted(t) = 1 /\ completed[t][id] = 1) =>
            RecordOf(t).checkpoints_[id].totalCycles_
              = lastCallClock[t] - RecordOf(t).creationCycles_

(* C7: a checkpoint call that begins while the registry is inactive returns *)
(* at once and leaves every slot, every lastCheckpointHit_, the thread map, *)
(* the registration index and the count unchanged; a thread whose first     *)
(* call is made while inactive is not registered.                           *)
C7_InactiveCallsChangeNothing ==
    [][ \A t \in Threads :
          (instance_ # 0 /\ ~isActive_ /\ started'[t] # started[t])
             => /\ UNCHANGED <<registryVars, lockVars, completed, callers>>
                /\ pc'[t] = "idle"
                /\ inactiveCalls'[t] = inactiveCalls[t] + 1 ]_vars

\* a thread has called while inactive and is not registered, next to a
\* registered one whose record holds counts
C7_Witness ==
    /\ instance_ # 0 /\ ~isActive_
    /\ inactiveCalls[2] = 1 /\ ~Registered(2)
    /\ Registered(1) /\ CallsCompleted(1) = 1
    /\ threadIdCounter_ = 1

(* C8: when more threads make a first checkpoint call than the capacity     *)
(* given to initialize, no store to the registration index goes outside the *)
(* storage allocated for it.                                                *)
C8_IndexStaysInStorage ==
    (instance_ # 0 /\ numThreads_ # 0) =>
        \A i \in DOMAIN threadIdVector_ : i < vecCapacity

(* C9: in single-threaded mode, under every interleaving of calls from any  *)
(* number of OS threads, the registry ends with one thread record and a     *)
(* registered-thread count of 1, and every call is counted in that record.  *)
C9_SingleThreadedOneRecord ==
    (instance_ # 0 /\ numThreads_ = 0 /\ callers # {} /\ AllIdle) =>
        /\ DOMAIN threadCpInfoMap_ = {0}
        /\ threadIdCounter_ = 1
        /\ \A i \in CpIds :
              threadCpInfoMap_[0].checkpoints_[i].iterations_
                = SumOver([t \in Threads |-> completed[t][i]], Threads)

(* C10: in the slow path, the thread looks its identity up again after it   *)
(* has acquired the exclusive lock, before it appends to the registration   *)
(* index and inserts a record.                                              *)
C10_RecheckUnderExclusiveLock ==
    \A t \in Threads :
        (pc[t] \in {"reg_index", "reg_insert"}) => findLock[t] = "wr"

(* C11: an initialize(capacity, useLocking) call made while a registry       *)
(* exists changes nothing: useLocking_ keeps the value in effect, and so do  *)
(* the capacity and every record; useLocking_ changes only after destroy.    *)
C11_LockingModeKept ==
    [][ (instance_ # 0 /\ initCalls' # initCalls)
          => /\ useLocking_' = useLocking_
             /\ UNCHANGED <<instance_, registryVars>> ]_vars

(* C12: with locking enabled, from the moment dump() has taken the mutex     *)
(* until it releases it no checkpoint call is between its increment and its *)
(* unlock, and every value dump() has read from a slot is the value the     *)
(* slot holds, which counts exactly the calls its thread has completed: the *)
(* iterations_ just read, the iterations_ and totalCycles_ of every detail  *)
(* line, the iterations_ and previousCycles_ of every throughput line.      *)
DumpReading == dpc \in {"thread", "iter", "total", "avg", "tput", "ids", "unlock"}

SlotOfLine(line) ==
    threadCpInfoMap_[VecLoad(threadIdVector_, line.thread)].checkpoints_[line.checkpoint]

OwnerCount(key, id) ==
    SumOver([t \in Threads |-> IF pthread_self(t) = key THEN completed[t][id] ELSE 0],
            Threads)

C12_DumpReadsWholeUpdates ==
    (useLocking_ /\ numThreads_ # 0 /\ DumpReading) =>
        /\ \A t \in Threads : pc[t] \notin {"update", "unlock"}
        /\ dpc = "total" =>
              /\ threadCpInfoMap_[dKey].checkpoints_[dCp].iterations_ = dIter
              /\ dIter = OwnerCount(dKey, dCp)
        /\ \A j \in DOMAIN out :
              /\ out[j].kind = "detail" =>
                    /\ out[j] = DetailLine(out[j].thread, out[j].checkpoint,
                                            SlotOfLine(out[j]).iterations_,
                                            SlotOfLine(out[j]).totalCycles_)
                    /\ out[j].iterations
                         = OwnerCount(VecLoad(threadIdVector_, out[j].thread),
                                      out[j].checkpoint)
              /\ (out[j].kind = "tput_thread" /\ out[j].ref \in CpIds) =>
                    LET slot == threadCpInfoMap_[VecLoad(threadIdVector_, out[j].thread)]
                                   .checkpoints_[out[j].ref]
                    IN  /\ out[j].iterations = slot.iterations_
                        /\ out[j].endTime = slot.previousCycles_

\* a dump has read every slot while a registered thread's next call waits for
\* the mutex, and it has printed counts of that thread
C12_Witness ==
    /\ useLocking_ /\ dpc = "unlock"
    /\ \E t \in Threads :
          /\ pc[t] = "lock" /\ CallsCompleted(t) >= 1
          /\ \E j \in DOMAIN out :
                /\ out[j].kind = "detail" /\ out[j].iterations >= 1
                /\ VecLoad(threadIdVector_, out[j].thread) = pthread_self(t)

(* C13: under fair scheduling every checkpoint call that has started        *)
(* returns, whichever threads call for the first time or again and whether  *)
(* or not a dump runs at the same time; so does every dump.                 *)
C13_CallsReturn ==
    /\ \A t \in Threads : (pc[t] # "idle") ~> (pc[t] = "idle")
    /\ (dpc # "idle") ~> (dpc = "idle")

\* in locking mode a dump holds the mutex while a repeat caller waits for it
\* and a first-time caller waits for the exclusive lock on the thread map
C13_Witness ==
    /\ useLocking_ /\ checkpointLock_ = Dumper
    /\ \E a \in Threads : \E b \in Threads \ {a} :
          /\ pc[a] = "lock" /\ CallsCompleted(a) >= 1
          /\ pc[b] = "wr_wait"

(* C14: while a registry lives, a thread record appears in the map only in  *)
(* the step in which a thread that has no record yet inserts its own during *)
(* a checkpoint call (never in a step of initialize, setActive or dump); a  *)
(* record in the map stays there and changes only through a checkpoint call *)
(* that resolved it; a word of the registration index never changes.        *)
C14_RecordsCreatedOnceByTheirThread ==
    [][ (instance_ # 0 /\ instance_' = instance_) =>
          /\ \A k \in DOMAIN threadCpInfoMap_ :
                /\ k \in DOMAIN threadCpInfoMap_'
                /\ threadCpInfoMap_'[k] # threadCpInfoMap_[k] =>
                      \E t \in Threads :
                          /\ threadCp[t] = k
                          /\ pc[t] \in {"resolved", "update"}
                          /\ pc'[t] # pc[t]
          /\ \A k \in DOMAIN threadCpInfoMap_' \ DOMAIN threadCpInfoMap_ :
                \E t \in Threads :
                    /\ KeyOf(t) = k
                    /\ pc[t] \in {"reg_insert", "st_insert"}
                    /\ pc'[t] = "resolved"
          /\ \A i \in DOMAIN threadIdVector_ :
                /\ i \in DOMAIN threadIdVector_'
                /\ threadIdVector_'[i] = threadIdVector_[i] ]_vars

(* C15: the detail sections and the thread-id table follow the registration *)
(* order: every detail line with thread index i is the line of a slot of    *)
(* the (i+1)-th thread to register, built from that thread's calls alone,   *)
(* sections come in increasing index, entry i of the table is that thread's *)
(* identity, and a finished dump has a section for every registered thread; *)
(* so the detail lines do not depend on the identity values.                *)
RecordAfter(hist) == Replay(ThreadCheckpointInfo(0, 0, 0), 0, hist).rec

C15_DetailInRegistrationOrder ==
    /\ \A j \in DOMAIN out :
          /\ out[j].kind = "detail" =>
                LET slot == RecordAfter(cfg.hist[out[j].thread + 1])
                               .checkpoints_[out[j].checkpoint]
                IN  out[j] = DetailLine(out[j].thread, out[j].checkpoint,
                                        slot.iterations_, slot.totalCycles_)
          /\ out[j].kind = "id" => out[j].threadId = pthread_self(out[j].thread + 1)
          /\ \A k \in DOMAIN out :
                (j < k /\ out[j].kind = "detail" /\ out[k].kind = "detail")
                   => out[j].thread <= out[k].thread
    /\ (dpc = "idle" /\ dumps > 0) =>
          /\ \A t \in Threads : \E j \in DOMAIN out :
                out[j].kind = "detail" /\ out[j].thread = t - 1
          /\ dFlags.dumpThreadIds =>
                \A t \in Threads : \E j \in DOMAIN out :
                    out[j].kind = "id" /\ out[j].thread = t - 1

\* the thread that registered first has the larger identity and other counts
\* than the second; the dump has printed both sections and the table
C15_Witness ==
    /\ dpc = "idle" /\ dumps > 0 /\ dFlags.dumpThreadIds
    /\ pthread_self(1) > pthread_self(2)
    /\ RecordAfter(cfg.hist[1]) # RecordAfter(cfg.hist[2])
    /\ \E j \in DOMAIN out : out[j].kind = "detail" /\ out[j].thread = 1
    /\ \E j \in DOMAIN out : out[j].kind = "id" /\ out[j].thread = 1

(* C16: in a finished dump, for every registered thread with a slot whose   *)
(* iterations_ is not 0, the detail lines of the thread are one line for    *)
(* each id from 0 to lastUsedId, the largest id with iterations_ > 0, in    *)
(* that order: ids never hit below lastUsedId are reported, ids above it    *)
(* are not.                                                                 *)
Used(rec) == {i \in CpIds : rec.checkpoints_[i].iterations_ > 0}

LastUsedId(rec) == CHOOSE i \in Used(rec) : \A k \in Used(rec) : k <= i

IdsOfSection(thread) ==
    LET lines == SelectSeq(out, LAMBDA line : line.kind = "detail" /\ line.thread = thread)
    IN  [j \in DOMAIN lines |-> lines[j].checkpoint]

C16_DetailIsZeroToLastUsed ==
    (dpc = "idle" /\ dumps > 0) =>
        \A thread \in 0..(threadIdCounter_ - 1) :
            LET rec == threadCpInfoMap_[VecLoad(threadIdVector_, thread)]
            IN  Used(rec) # {} =>
                  IdsOfSection(thread) = [j \in 1..(LastUsedId(rec) + 1) |-> j - 1]

\* one thread's last used id is 0, the other's is the last id there is and
\* that thread never hit id 0; the dump has printed both sections
C16_Witness ==
    /\ dpc = "idle" /\ dumps > 0
    /\ \E a, b \in 0..(threadIdCounter_ - 1) :
          LET ra == threadCpInfoMap_[VecLoad(threadIdVector_, a)]
              rb == threadCpInfoMap_[VecLoad(threadIdVector_, b)]
          IN  /\ Used(ra) = {0}
              /\ Used(rb) = {MAX_CHECKPOINT - 1}
              /\ Len(IdsOfSection(a)) = 1
              /\ Len(IdsOfSection(b)) = MAX_CHECKPOINT

(* C17: in a finished dump that was asked for averages, the weighted        *)
(* section has a line for checkpoint id i if and only if at least two       *)
(* registered threads have iterations_ > 0 for i, and only one; the line    *)
(* reports the iterations_ of those threads added up and divided by their   *)
(* number, and the totalCycles_ added up and divided by their number,       *)
(* printed with its average under the unit-scaling rule.                    *)
Contributors(i) ==
    {thread \in 0..(threadIdCounter_ - 1) :
        threadCpInfoMap_[VecLoad(threadIdVector_, thread)].checkpoints_[i].iterations_ > 0}

SumOfContributors(i, field) ==
    SumOver([thread \in Contributors(i) |->
                threadCpInfoMap_[VecLoad(threadIdVector_, thread)].checkpoints_[i][field]],
            Contributors(i))

AverageLines(i) ==
    SelectSeq(out, LAMBDA line : line.kind \in {"weighted", "SIGFPE"} /\ line.checkpoint = i)

C17_WeightedAverageOverContributors ==
    (dpc = "idle" /\ dumps > 0 /\ dFlags.dumpAverages) =>
        \A i \in CpIds :
            LET n == Cardinality(Contributors(i)) IN
            IF n >= 2
              THEN LET iterations == SumOfContributors(i, "iterations_") \div n
                       total == SumOfContributors(i, "totalCycles_") \div n
                       scaled == getTimeResolutionStr(total \div iterations, total)
                   IN  AverageLines(i)
                         = <<[kind |-> "weighted", checkpoint |-> i,
                              iterations |-> iterations, unit |-> scaled.unit,
                              avg |-> scaled.avgCycles, total |-> scaled.totalCycles]>>
              ELSE AverageLines(i) = <<>>

\* one id was hit by both threads and has its line, which reports a time
\* above 0; another id was hit by one thread only and has none
C17_Witness ==
    /\ dpc = "idle" /\ dumps > 0 /\ dFlags.dumpAverages
    /\ \E i \in CpIds, k \in CpIds :
          /\ Cardinality(Contributors(i)) = 2
          /\ Len(AverageLines(i)) = 1
          /\ AverageLines(i)[1].iterations = 1
          /\ AverageLines(i)[1].total > 0
          /\ Cardinality(Contributors(k)) = 1
          /\ AverageLines(k) = <<>>

(* C18: the reference id the throughput report names is the last used id of *)
(* the first thread to register, the largest id with iterations_ > 0 in its *)
(* record, and so an index inside the slot array.                           *)
C18_ReferenceIdIsLastUsed ==
    \A j \in DOMAIN out :
        (out[j].kind = "tput" /\ threadIdCounter_ > 0) =>
            LET threadZeroCps == threadCpInfoMap_[VecLoad(threadIdVector_, 0)]
            IN  Used(threadZeroCps) # {} =>
                  /\ out[j].checkpoint = LastUsedId(threadZeroCps)
                  /\ out[j].checkpoint \in CpIds

(* C19: with the microsecond clock a printed (average, total) pair is       *)
(* labelled "Seconds" if and only if both values are at least 1000000: an   *)
(* average just below one second is printed in a finer unit, one at or      *)
(* above it in Seconds.                                                     *)
RawAverage == cfg.total \div cfg.iterations

C19_SecondsFromOneSecond ==
    \A j \in DOMAIN out :
        (out[j].unit = "Seconds") <=> (RawAverage >= 1000000 /\ cfg.total >= 1000000)

(* C20: every printed (average, total) pair, of a detail line and of a      *)
(* weighted line, is the pair handed to the rule with both values divided   *)
(* by the same divisor 1, 1000 or 1000000, under the one label of that      *)
(* divisor.                                                                 *)
C20_PairScaledTogether ==
    \A j \in DOMAIN out :
        \E scale \in {<<"MicroSec", 1>>, <<"MilliSec", 1000>>, <<"Seconds", 1000000>>} :
            /\ out[j].unit = scale[1]
            /\ out[j].avg = RawAverage \div scale[2]
            /\ out[j].total = cfg.total \div scale[2]

\* a detail line and a weighted line have been printed for a pair that is
\* scaled: the average printed is not the average handed in
C20_Witness ==
    /\ Len(out) = 2
    /\ {out[1].kind, out[2].kind} = {"detail", "weighted"}
    /\ out[1].unit = "MilliSec"
    /\ out[1].avg # RawAverage /\ out[1].avg > 0
    /\ out[2].avg = out[1].avg /\ out[2].total = out[1].total

(* C21: dump() never divides an integer by zero: no line of the report is   *)
(* the trap of a division, a detail line of a slot with iterations_ = 0     *)
(* reports the average 0 without dividing, and when the weighted averages   *)
(* are computed every id with more than one contributing thread has summed  *)
(* iterations_ divided by that number of at least 1.                        *)
C21_NoDivisionByZero ==
    /\ \A j \in DOMAIN out :
          /\ out[j].kind # "SIGFPE"
          /\ (out[j].kind = "detail" /\ out[j].iterations = 0) => out[j].avg = 0
    /\ dpc \in {"avg", "tput", "ids", "unlock"} =>
          \A i \in CpIds :
              numCpHits[i] > 1 => totalCpAvg[i].iterations_ \div numCpHits[i] >= 1

\* a dump has printed the line of a slot that was never hit, below a slot
\* that was, and the weighted average of an id that two threads hit
C21_Witness ==
    /\ dpc = "idle" /\ dumps > 0
    /\ \E j \in DOMAIN out : out[j].kind = "detail" /\ out[j].iterations = 0
    /\ \E j \in DOMAIN out : out[j].kind = "weighted" /\ out[j].iterations >= 1
    /\ \E i \in CpIds : numCpHits[i] = Cardinality(Threads)

(* C22: a ScopedCheckpoint object causes exactly two checkpoint calls on    *)
(* its thread: the first call since its construction is checkpoint(startId) *)
(* made by the constructor, the last one checkpoint(endId) made by the      *)
(* destructor, with endId = startId + 1 for the one-argument form and the   *)
(* id given for the two-argument form; every call of the code in the scope  *)
(* lies between the two, and each of them is a call the thread has made.    *)
(* The registry of this run is active throughout.                           *)
ScopeArgsOf(t) == CHOOSE args \in cfg.scopeArgs : TRUE

ScopeEndId(args) == IF Len(args) = 1 THEN args[1] + 1 ELSE args[2]

C22_ScopeBracketsItsCalls ==
    \A t \in Threads :
        LET log == scopeLog[t]
            n == Len(log)
        IN  log # <<>> =>
              /\ log[1] = ScopeCall(ScopeArgsOf(t)[1], "ctor")
              /\ \A j \in 2..n : log[j].by # "ctor"
              /\ \A j \in 1..(n - 1) : log[j].by # "dtor"
              /\ IF scoped[t].live
                   THEN log[n].by # "dtor"
                   ELSE log[n] = ScopeCall(ScopeEndId(ScopeArgsOf(t)), "dtor")
              /\ n <= started[t]
              /\ (scoped[t].live /\ pc[t] # "idle") => cpArg[t] = log[n].id

\* an object of the one-argument form has been destroyed after a call of the
\* code in its scope, and its three calls are counted in the thread's record
C22_Witness ==
    /\ Len(scopeLog[1]) = 3 /\ ~scoped[1].live
    /\ Len(ScopeArgsOf(1)) = 1
    /\ scopeLog[1][2].by = "body"
    /\ pc[1] = "idle" /\ CallsCompleted(1) = 3

(* C23: after destroy() no registry exists, and an instance() call made     *)
(* then, on its own or through CHECKPOINT, creates a new registry with the  *)
(* default capacity, locking enabled, active and without thread records,    *)
(* index entries or held locks: nothing of the destroyed registry survives. *)
C23_Step ==
    /\ (instance_ # 0 /\ instance_' = 0) =>
          /\ DOMAIN threadCpInfoMap_' = {}
          /\ threadIdCounter_' = 0
          /\ ret' = 0
    /\ (instance_ = 0 /\ instance_' # 0 /\ initCalls' = initCalls) =>
          /\ instance_' > created
          /\ numThreads_' = DEFAULT_MAX_THREADS
          /\ useLocking_'
          /\ isActive_'
          /\ DOMAIN threadCpInfoMap_' = {}
          /\ DOMAIN threadIdVector_' = {}
          /\ threadIdCounter_' = 0
          /\ checkpointLock_' = 0 /\ rwReaders' = {} /\ rwWriter' = 0
          /\ \A t \in Threads : \A i \in CpIds : completed'[t][i] = 0

C23_DestroyLeavesNothing == [][C23_Step]_vars

\* a registry made by initialize() on which a thread has recorded was
\* destroyed, and instance() has returned the registry made after it
C23_Witness ==
    /\ created = 2 /\ instance_ = 2 /\ ret = 2
    /\ initCalls >= 1
    /\ \E t \in Threads : started[t] > inactiveCalls[t] /\ CallsCompleted(t) = 0
    /\ numThreads_ = DEFAULT_MAX_THREADS /\ useLocking_ /\ isActive_

(* C24: the argument that follows the output in a dump call controls the    *)
(* per-thread detail section: a finished dump of threads that have recorded *)
(* has detail lines if and only if that argument was true.                  *)
C24_SecondArgumentControlsDetail ==
    (dpc = "idle" /\ dumps > 0) =>
        ((\E j \in DOMAIN out : out[j].kind = "detail") <=> DumpArgument(1))

(* C25: time that passes while the registry is inactive is excluded from    *)
(* measurement: a checkpoint call of a thread that has a record and has     *)
(* recorded before adds to the slots of that record no more than the time   *)
(* since the thread's last call less the time spent inactive in between.    *)
C25_Step ==
    \A t \in Threads :
        (/\ pc[t] = "update" /\ pc'[t] = "unlock"
         /\ OwnsRecord(t) /\ CallsCompleted(t) >= 1) =>
            TotalElapsed(threadCpInfoMap_'[threadCp[t]]) - TotalElapsed(RecordOf(t))
              <= (lastCallClock'[t] - lastCallClock[t]) - inactiveSince[t]

C25_InactiveTimeExcluded == [][C25_Step]_vars

(* C26: in multi-threaded mode, in every state in which no thread is in the *)
(* slow path of getThreadCpInfo, the count the dump header prints           *)
(* (threadIdCounter_) is the number of records in the thread map and the    *)
(* number of entries of the registration index, and the identity of every   *)
(* thread that has resolved its record in an active call is in the index    *)
(* exactly once.                                                            *)
Registering == {t \in Threads : pc[t] \in {"wrlock", "wr_wait", "reg_index", "reg_insert"}}

IndexEntriesOf(word) == {i \in DOMAIN threadIdVector_ : threadIdVector_[i] = word}

C26_CountMapIndexAgree ==
    (instance_ # 0 /\ numThreads_ # 0 /\ Registering = {}) =>
        /\ threadIdCounter_ = Cardinality(DOMAIN threadCpInfoMap_)
        /\ threadIdCounter_ = Cardinality(DOMAIN threadIdVector_)
        /\ \A t \in callers :
              pc[t] \notin {"rdlock", "find"} =>
                  Cardinality(IndexEntriesOf(pthread_self(t))) = 1

(* C27: with locking enabled and a thread inside its first checkpoint call, *)
(* no step of dump() that reads the registered-thread count, the            *)
(* registration index or the thread map is taken while a registering thread *)
(* has stored its identity in the index and not yet inserted its record,    *)
(* and no such step adds a key to the thread map.                           *)
DumpReadsRegistry ==
    \/ dpc = "idle" /\ dpc' = "lock"
    \/ dpc \in {"thread", "tput", "ids"} /\ <<dpc, dThread>>' # <<dpc, dThread>>

InFirstCall(t) == pc[t] # "idle" /\ CallsCompleted(t) = 0

C27_Step ==
    (/\ useLocking_ /\ numThreads_ # 0
     /\ \E t \in Threads : InFirstCall(t)
     /\ DumpReadsRegistry) =>
        /\ \A t \in Threads : pc[t] # "reg_insert"
        /\ DOMAIN threadCpInfoMap_' = DOMAIN threadCpInfoMap_

C27_DumpExcludesRegistration == [][C27_Step]_vars

(* C28: dump() is read-only on the registry: no step of a dump, whatever    *)
(* its flags and whatever the registry holds, changes the key set of the    *)
(* thread map, a slot, a lastCheckpointHit_, the registration index or the  *)
(* registered-thread count.                                                 *)
C28_Step ==
    (dumpVars' # dumpVars) =>
        UNCHANGED <<threadCpInfoMap_, threadIdVector_, threadIdCounter_>>

C28_DumpIsReadOnly == [][C28_Step]_vars

(* C29: in multi-threaded mode a thread acquires the exclusive lock on the  *)
(* thread map exactly once, in its first active checkpoint call: it has     *)
(* acquired it once when it registers or is registered and never before,    *)
(* a call of a thread that has completed one never enters the slow path,    *)
(* no thread holds the lock, shared or exclusive, while it works on a slot, *)
(* and with no registration in progress the number of exclusive             *)
(* acquisitions is the number of registered threads.                        *)
C29_ExclusiveLockOncePerThread ==
    (instance_ # 0 /\ numThreads_ # 0) =>
        /\ \A t \in Threads :
              /\ wrLocks[t] = IF pc[t] \in {"reg_index", "reg_insert"}
                                   \/ (t \in callers /\ pc[t] \in {"idle", "resolved", "lock",
                                                                    "update", "unlock"})
                                   \/ CallsCompleted(t) >= 1
                                THEN 1 ELSE 0
              /\ rwWriter = t => CallsCompleted(t) = 0
              /\ CallsCompleted(t) >= 1 =>
                    pc[t] \notin {"wrlock", "wr_wait", "reg_index", "reg_insert"}
              /\ pc[t] \in {"resolved", "lock", "update", "unlock"} =>
                    (t \notin rwReaders /\ rwWriter # t)
        /\ Registering = {} => SumOver(wrLocks, Threads) = threadIdCounter_

\* both threads are registered and have each made ConcCalls calls, the later
\* ones through the shared lock alone
C29_Witness ==
    /\ instance_ # 0 /\ numThreads_ # 0 /\ AllIdle
    /\ \A t \in Threads :
          /\ CallsCompleted(t) = ConcCalls
          /\ wrLocks[t] = 1
          /\ findLock[t] = "rd"
    /\ threadIdCounter_ = Cardinality(Threads)

(* C30: under fair scheduling a thread that waits in the slow path for the  *)
(* exclusive lock acquires it and completes its registration, also while    *)
(* registered threads issue further calls: from the moment it waits no      *)
(* thread acquires the shared lock, so it waits only for the holders there  *)
(* are, and it goes on to resolve its record.                               *)
C30_NoReaderPassesWriter ==
    (\E t \in Threads : pc[t] = "wr_wait") => rwReaders' \subseteq rwReaders

C31_Step ==
    (numThreads_ # 0 /\ instance_' = instance_) =>
        \A k \in DOMAIN threadCpInfoMap_ :
            /\ k \in DOMAIN threadCpInfoMap_'
            /\ \A i \in CpIds :
                  threadCpInfoMap_'[k].checkpoints_[i].totalCycles_
                    >= threadCpInfoMap_[k].checkpoints_[i].totalCycles_

C31_Unused ==
    numThreads_ # 0 =>
        \A k \in DOMAIN threadCpInfoMap_ : \A i \in CpIds :
            (threadCpInfoMap_[k].checkpoints_[i].iterations_ = 0)
               => (threadCpInfoMap_[k].checkpoints_[i].totalCycles_ = 0)

C31_TotalOnlyGrows == []C31_Unused /\ [][C31_Step]_vars

\* a slot has grown twice, by different amounts, next to a slot never hit
C31_Witness ==
    /\ numThreads_ # 0 /\ Registered(1) /\ pc[1] = "idle"
    /\ \E i \in CpIds, j \in CpIds :
          /\ RecordOf(1).checkpoints_[i].iterations_ >= 2
          /\ RecordOf(1).checkpoints_[i].totalCycles_ >= 2
          /\ RecordOf(1).checkpoints_[j].iterations_ = 0
          /\ RecordOf(1).checkpoints_[j].totalCycles_ = 0

(* C32: an active checkpoint(id) call of a thread whose lastCheckpointHit_  *)
(* is another id adds the clock value of the call minus the                 *)
(* previousCycles_ of the slot lastCheckpointHit_ names to the totalCycles_ *)
(* of slot id, sets the previousCycles_ of slot id to that clock value and  *)
(* lastCheckpointHit_ to id, and leaves every other slot as it was.         *)
\* the call of t takes its pointers: the slot named by lastCheckpointHit_ is
\* the one the delta will be taken from, and no slot changes
C32_Pointers(t) ==
    (pc[t] = "resolved" /\ pc'[t] = "lock") =>
        LET rec == threadCpInfoMap_[threadCp[t]]
            after == threadCpInfoMap_'[threadCp[t]]
        IN  /\ previousCp'[t] = rec.lastCheckpointHit_
            /\ currentCp'[t] = cpArg[t]
            /\ after.lastCheckpointHit_ = cpArg[t]
            /\ after.checkpoints_ = rec.checkpoints_

\* the call of t accumulates
C32_Update(t) ==
    (pc[t] = "update" /\ pc'[t] = "unlock" /\ currentCp[t] # previousCp[t]) =>
        LET rec == threadCpInfoMap_[threadCp[t]]
            after == threadCpInfoMap_'[threadCp[t]]
            id == cpArg[t]
        IN  /\ after.checkpoints_[id].totalCycles_
                 = rec.checkpoints_[id].totalCycles_
                     + (now' - rec.checkpoints_[previousCp[t]].previousCycles_)
            /\ after.checkpoints_[id].previousCycles_ = now'
            /\ after.lastCheckpointHit_ = id
            /\ \A i \in CpIds \ {id} : after.checkpoints_[i] = rec.checkpoints_[i]

\* every other step of a call that has resolved its record leaves it alone
C32_Rest(t) ==
    (/\ pc[t] \in {"lock", "unlock"}
     /\ pc'[t] # pc[t]) =>
        threadCpInfoMap_'[threadCp[t]] = threadCpInfoMap_[threadCp[t]]

C32_Step ==
    \A t \in Threads :
        (callers \subseteq {t}) => (C32_Pointers(t) /\ C32_Update(t) /\ C32_Rest(t))

C32_CallOnAnotherId == [][C32_Step]_vars

\* a second call on an id, made after a call on another id, has added the
\* time since that other call to what the slot held
C32_Witness ==
    /\ pc[1] = "unlock" /\ Registered(1)
    /\ currentCp[1] # previousCp[1]
    /\ RecordOf(1).checkpoints_[previousCp[1]].iterations_ = 1
    /\ RecordOf(1).checkpoints_[currentCp[1]].iterations_ = 2
    /\ RecordOf(1).checkpoints_[currentCp[1]].totalCycles_ = 2
    /\ RecordOf(1).checkpoints_[currentCp[1]].previousCycles_
          = RecordOf(1).checkpoints_[previousCp[1]].previousCycles_ + 1

(* C33: when the threads of the example driver (checkpoint 0 once, the loop *)
(* checkpoints numLoops times, the closing checkpoint once), started after  *)
(* initialize(T, locking), have all returned, each thread's record counts   *)
(* 1 for the first and the closing id, numLoops for the loop id and 0 for   *)
(* every id above, exactly T threads are registered, and the dump lists the *)
(* ids 0 to the closing one for each thread.                                *)
DriverCount(id) == CountOf([j \in DOMAIN cfg.program |-> <<cfg.program[j]>>], id)

C33_Records ==
    DriverJoined =>
        /\ threadIdCounter_ = cfg.numThreads
        /\ Cardinality(DOMAIN threadCpInfoMap_) = cfg.numThreads
        /\ \A t \in 1..cfg.numThreads :
              /\ Registered(t)
              /\ \E i \in 0..(cfg.numThreads - 1) : threadIdVector_[i] = pthread_self(t)
              /\ RecordOf(t).checkpoints_[0].iterations_ = 1
              /\ RecordOf(t).checkpoints_[1].iterations_ = DriverLoops
              /\ RecordOf(t).checkpoints_[2].iterations_ = 1
              /\ \A i \in CpIds : i > 2 => RecordOf(t).checkpoints_[i].iterations_ = 0

C33_Report ==
    (DriverJoined /\ dumps = 1 /\ dpc = "idle") =>
        LET detail == SelectSeq(out, LAMBDA line : line.kind = "detail")
        IN  /\ Len(detail) = 3 * cfg.numThreads
            /\ \A j \in DOMAIN detail :
                  /\ detail[j].thread = (j - 1) \div 3
                  /\ detail[j].checkpoint = (j - 1) % 3
                  /\ detail[j].iterations = DriverCount((j - 1) % 3)

ScriptedRecord(n) ==
    Replay(ThreadCheckpointInfo(0, cfg.birth[1], cfg.birth[2]), cfg.birth[1],
           SubSeq(cfg.script, 1, n)).rec

C34_ModesAgree ==
    (instance_ # 0 /\ pc[1] = "idle" /\ started[1] >= 1) =>
        /\ Registered(1)
        /\ RecordOf(1) = ScriptedRecord(started[1])
        /\ DOMAIN threadCpInfoMap_ = {KeyOf(1)}
        /\ threadIdCounter_ = 1
        /\ threadIdVector_ = [i \in {0} |-> KeyOf(1)]
        /\ IF numThreads_ = 0
             THEN findLock[1] = "none" /\ wrLocks[1] = 0
             ELSE findLock[1] = "rd" /\ wrLocks[1] = 1

\* the script is over in single-threaded mode: time has passed between the
\* calls and a slot holds some of it
C34_Witness ==
    /\ numThreads_ = 0 /\ instance_ # 0
    /\ pc[1] = "idle" /\ started[1] = ModeCalls
    /\ now >= 2
    /\ RecordOf(1).lastCheckpointHit_ # 0
    /\ \E i \in CpIds : RecordOf(1).checkpoints_[i].totalCycles_ >= 1

(* C35: a ScopedCheckpoint constructed with one argument startId in         *)
(* 0..MAX_CHECKPOINT-1 issues only checkpoint calls whose id is in          *)
(* 0..MAX_CHECKPOINT-1, so that no call of its constructor or destructor    *)
(* indexes outside the slot array, startId = MAX_CHECKPOINT-1 included.     *)
C35_ScopedIdsInRange ==
    \A t \in Threads :
        (scopeLog[t] # <<>> /\ Len(ScopeArgsOf(t)) = 1) =>
            /\ \A j \in DOMAIN scopeLog[t] :
                  scopeLog[t][j].by \in {"ctor", "dtor"} => scopeLog[t][j].id \in CpIds
            /\ pc[t] \in {"update", "unlock"} => currentCp[t] \in CpIds

(* C36: whenever no checkpoint call is in progress every registered thread  *)
(* has a slot with iterations_ > 0, so that a dump made after all recording *)
(* threads have finished skips no registered thread as unused and writes    *)
(* one detail section for each of them.                                     *)
C36_Quiescent ==
    (instance_ # 0 /\ AllIdle) =>
        /\ \A t \in Threads :
              Registered(t) => \E i \in CpIds : RecordOf(t).checkpoints_[i].iterations_ > 0
        /\ \A k \in DOMAIN threadCpInfoMap_ :
              \E i \in CpIds : threadCpInfoMap_[k].checkpoints_[i].iterations_ > 0
        /\ \A thread \in 0..(threadIdCounter_ - 1) :
              VecLoad(threadIdVector_, thread) \in DOMAIN threadCpInfoMap_

C36_Sections ==
    (DriverJoined /\ dumps = 1 /\ dpc = "idle") =>
        {out[j].thread : j \in {n \in DOMAIN out : out[n].kind = "detail"}}
          = 0..(threadIdCounter_ - 1)

C36_NoRegisteredThreadUnused == C36_Quiescent /\ C36_Sections

\* two threads are registered, one of them between two of its calls, the
\* other one done
C36_Witness ==
    /\ AllIdle /\ threadIdCounter_ = 2 /\ dumps = 0
    /\ started[1] = 1 /\ started[2] = cfg.calls[2]
    /\ Cardinality(DOMAIN threadCpInfoMap_) = 2

(* C37: as long as initialize() is not called while a checkpoint or dump    *)
(* call is in progress, no thread holds the thread-map lock and the         *)
(* accumulation mutex at once, a call releases the mutex exactly if it      *)
(* acquired it, and both locks are free whenever no checkpoint or dump call *)
(* is in progress.                                                          *)
C37_NeverBoth ==
    \A t \in Threads \cup {Dumper} :
        ~((t \in rwReaders \/ rwWriter = t) /\ checkpointLock_ = t)

C37_FreeAtRest ==
    (AllIdle /\ dpc = "idle") =>
        (checkpointLock_ = 0 /\ rwReaders = {} /\ rwWriter = 0)

\* the step that returns from checkpoint() or dump(): the mutex is unlocked
\* exactly if the returning thread holds it, and then it is free
C37_Step ==
    /\ \A t \in Threads :
          (pc[t] = "unlock" /\ pc'[t] = "idle") =>
              /\ useLocking_ <=> (checkpointLock_ = t)
              /\ (checkpointLock_ = t) => (checkpointLock_' = 0)
    /\ (dpc = "unlock" /\ dpc' = "idle") =>
          /\ useLocking_ <=> (checkpointLock_ = Dumper)
          /\ (checkpointLock_ = Dumper) => (checkpointLock_' = 0)

C37_LockDiscipline == ([]C37_NeverBoth /\ []C37_FreeAtRest) /\ [][C37_Step]_vars

\* the registry was created by a first call in locking mode, initialize()
\* switched locking off between two calls, and now a thread accumulates
\* without the mutex while a dump is in progress
C37_Witness ==
    /\ numThreads_ = DEFAULT_MAX_THREADS /\ initCalls = 1 /\ ~useLocking_
    /\ \E t \in Threads : CallsCompleted(t) >= 1
    /\ \E t \in Threads : pc[t] = "unlock"
    /\ dpc \in {"thread", "iter", "total"}
    /\ checkpointLock_ = 0

(* C38: in the throughput report the end timestamp read from the reference  *)
(* slot of a registered thread, one that never hit the reference id         *)
(* included, is not less than the thread's creation timestamp, so that the  *)
(* unsigned difference endTime - startTime does not wrap.                   *)
C38_EndNotBeforeStart ==
    \A j \in DOMAIN out :
        (out[j].kind = "tput_thread" /\ out[j].ref \in CpIds) =>
            /\ out[j].endTime >= out[j].startTime
            /\ out[j].diff = out[j].endTime - out[j].startTime

----------------------------------------------------------------------------
\* C39: in the intermediate variant, destroy() on an existing registry discards
\* it: once destroy() has returned the instance is absent, and once the following
\* initialize(n, l) has returned there is a second registry, of capacity n and
\* without thread records
C39_DestroyDiscards ==
    /\ mainPc = "destroyed" => instance_ = 0
    /\ mainPc = "again" =>
          /\ created = 2 /\ instance_ = 2
          /\ numThreads_ = cfg.args[2] /\ vecCapacity = cfg.args[2]
          /\ threadIdCounter_ = 0 /\ threadCpInfoMap_ = EmptyFn

====
